---- MODULE Spec2Model ----
(***************************************************************************)
(* State-machine model of the FieldFlow multi-tenant backend               *)
(* (fastAPI-backend/app): tenants, users, roles and role assignments, the  *)
(* repositories that query them, the services and routers that change      *)
(* them.  Every request is one atomic step: it runs in its own database    *)
(* session, and a request that raises leaves nothing behind.  Where the    *)
(* interleaving of two requests is the question, a request is two steps,   *)
(* its reads and its writes, and waits in inflight between them.           *)
(*                                                                         *)
(* Text values (business names, slugs, usernames, e-mail addresses) are    *)
(* sequences of one-character strings, so that lower-casing, slug          *)
(* normalisation and suffix probing are computed character by character.   *)
(* UUIDs are pairs <<table, serial number>>.                               *)
(***************************************************************************)
EXTENDS Integers, Sequences, FiniteSets, TLC

VARIABLES
    tenants,      \* rows of table tenants
    users,        \* rows of table users
    roles,        \* rows of table roles
    user_roles,   \* rows of table user_roles
    nextId,       \* per table, the serial number of the next uuid4
    resp,         \* the response of the last request
    tokens,       \* the claims of the access tokens that clients hold
    inflight      \* the requests that have read the tables and not yet written

vars == <<tenants, users, roles, user_roles, nextId, resp, tokens, inflight>>
store == <<tenants, users, roles, user_roles>>

-----------------------------------------------------------------------------
(* Bounds of the model *)

MaxTenants == 2     \* tenant rows present at one time
MaxUsers == 2       \* user rows present at one time
MaxRoles == 3       \* role rows present at one time
MaxId == 2          \* identifiers handed out per table in one run

-----------------------------------------------------------------------------
(* Absent values *)

NoId == <<"none", 0>>                  \* None where a UUID is expected
NoneStr == <<"None">>       \* None where a str is expected
\* uuid.uuid4(), the default of the id column of every model
uuid4(table) == <<table, nextId[table]>>

NoToken == [sub |-> NoId, tenant_id |-> NoId]

\* Python truthiness of an optional str: None and "" are falsy
Truthy(s) == s # NoneStr /\ s # <<>>

-----------------------------------------------------------------------------
(* Characters and strings *)

LowerLetters == {"a", "c"}
UpperLetters == {"A", "C"}
Digits == {"0", "1", "2", "3", "4", "5", "6", "7", "8", "9"}

\* str.lower() on one character
lower(ch) == CASE ch = "A" -> "a"
               [] ch = "C" -> "c"
               [] OTHER -> ch

\* str.lower()
str_lower(s) == [i \in 1..Len(s) |-> lower(s[i])]

\* the character class [a-z0-9]
IsLowerAlnum(ch) == ch \in LowerLetters \cup Digits

\* the character class [a-zA-Z0-9_]
IsWordChar(ch) == ch \in LowerLetters \cup UpperLetters \cup Digits \cup {"_"}

\* the character class \s
IsSpace(ch) == ch = " "

RECURSIVE lstrip(_, _)
lstrip(s, ch) == IF s # <<>> /\ Head(s) = ch THEN lstrip(Tail(s), ch) ELSE s

RECURSIVE rstrip(_, _)
rstrip(s, ch) ==
    IF s # <<>> /\ s[Len(s)] = ch THEN rstrip(SubSeq(s, 1, Len(s) - 1), ch) ELSE s

\* str.strip(ch)
strip(s, ch) == rstrip(lstrip(s, ch), ch)

\* re.sub(r'[^a-z0-9]+', '-', s): every maximal run of characters outside
\* [a-z0-9] becomes one hyphen
RECURSIVE skip_non_alnum(_)
skip_non_alnum(s) ==
    IF s # <<>> /\ ~IsLowerAlnum(Head(s)) THEN skip_non_alnum(Tail(s)) ELSE s

RECURSIVE sub_non_alnum_runs(_)
sub_non_alnum_runs(s) ==
    IF s = <<>> THEN <<>>
    ELSE IF IsLowerAlnum(Head(s)) THEN <<Head(s)>> \o sub_non_alnum_runs(Tail(s))
    ELSE <<"-">> \o sub_non_alnum_runs(skip_non_alnum(Tail(s)))

\* re.sub(r'-+', '-', s)
RECURSIVE sub_hyphen_runs(_)
sub_hyphen_runs(s) ==
    IF s = <<>> THEN <<>>
    ELSE IF Head(s) = "-" THEN <<"-">> \o sub_hyphen_runs(lstrip(Tail(s), "-"))
    ELSE <<Head(s)>> \o sub_hyphen_runs(Tail(s))

\* the leading run of non-blank characters of s, and what follows it
RECURSIVE take_word(_)
take_word(s) ==
    IF s = <<>> \/ IsSpace(Head(s)) THEN <<>> ELSE <<Head(s)>> \o take_word(Tail(s))

RECURSIVE drop_word(_)
drop_word(s) == IF s = <<>> \/ IsSpace(Head(s)) THEN s ELSE drop_word(Tail(s))

\* ' '.join(s.split()): the words of s separated by single blanks
RECURSIVE join_split(_)
join_split(s) ==
    LET t == lstrip(s, " ")
    IN IF t = <<>> THEN <<>>
       ELSE LET rest == join_split(drop_word(t))
            IN IF rest = <<>> THEN take_word(t) ELSE take_word(t) \o <<" ">> \o rest

DigitChar(d) == CASE d = 0 -> "0" [] d = 1 -> "1" [] d = 2 -> "2" [] d = 3 -> "3"
                  [] d = 4 -> "4" [] d = 5 -> "5" [] d = 6 -> "6" [] d = 7 -> "7"
                  [] d = 8 -> "8" [] d = 9 -> "9"

\* str(n) for a natural number n
RECURSIVE int_str(_)
int_str(n) == IF n < 10 THEN <<DigitChar(n)>>
              ELSE int_str(n \div 10) \o <<DigitChar(n % 10)>>

\* the regular expression ^[a-z0-9]+(?:-[a-z0-9]+)*$
slug_pattern(s) ==
    /\ s # <<>>
    /\ \A i \in 1..Len(s) : IsLowerAlnum(s[i]) \/ s[i] = "-"
    /\ s[1] # "-" /\ s[Len(s)] # "-"
    /\ \A i \in 1..(Len(s) - 1) : ~(s[i] = "-" /\ s[i + 1] = "-")

\* SQL: value LIKE pattern || '%' where '_' in the pattern matches any one
\* character
sql_like_prefix(pattern, value) ==
    /\ Len(value) >= Len(pattern)
    /\ \A i \in 1..Len(pattern) : pattern[i] = "_" \/ pattern[i] = value[i]

-----------------------------------------------------------------------------
(* Responses *)

Response(op, status, tenant_id, user_id, token) ==
    [op |-> op, status |-> status, tenant_id |-> tenant_id,
     user_id |-> user_id, role_id |-> NoId, token |-> token]

Reply(op, status) == Response(op, status, NoId, NoId, NoToken)

\* the response of a request of the roles router
RoleReply(op, status, user_id, role_id) ==
    [op |-> op, status |-> status, tenant_id |-> NoId,
     user_id |-> user_id, role_id |-> role_id, token |-> NoToken]

-----------------------------------------------------------------------------
(* BaseRepository *)

\* One entry of a field map handed to BaseRepository.update: the key is not
\* in the dict ("absent"), it maps to None ("null") or to a value ("set").
Absent(default) == [st |-> "absent", v |-> default]
Null(default) == [st |-> "null", v |-> default]
Set(value) == [st |-> "set", v |-> value]

\* update_data that keeps the keys mapped to None
update_data_with_none(obj_data) == {k \in DOMAIN obj_data : obj_data[k].st # "absent"}

\* update_data = {k: v for k, v in obj_data.items() if v is not None}
update_data(obj_data) == {k \in DOMAIN obj_data : obj_data[k].st = "set"}

\* the row with the UPDATE ... SET update_data applied
apply_values(row, obj_data) ==
    [f \in DOMAIN row |->
        IF f \in update_data(obj_data) THEN obj_data[f].v ELSE row[f]]

\* BaseRepository.get_by_id: the row with that id, in a set of 0 or 1 rows
BaseRepository_get_by_id(table, id) == {r \in table : r.id = id}

\* BaseRepository.update: the table after the call
BaseRepository_update(table, id, obj_data) ==
    IF update_data(obj_data) = {} THEN table
    ELSE {IF r.id = id THEN apply_values(r, obj_data) ELSE r : r \in table}

\* BaseRepository.update: the returned row, in a set of 0 or 1 rows
BaseRepository_update_result(table, id, obj_data) ==
    IF update_data(obj_data) = {} THEN BaseRepository_get_by_id(table, id)
    ELSE {apply_values(r, obj_data) : r \in BaseRepository_get_by_id(table, id)}

\* BaseRepository.delete
BaseRepository_delete(table, id) == {r \in table : r.id # id}

-----------------------------------------------------------------------------
(* Input values of the requests *)

BusinessNames ==
    { <<"A", "c">>,             \* "Ac"
      <<"a", "c">>,             \* "ac"  (equal to "Ac" ignoring case)
      <<"a", " ", "c">>,        \* "a c" (its slug is "a-c")
      <<"a">> }                 \* "a"   (shorter than min_length)

SlugInputs ==
    { NoneStr,
      <<"A", "-", "c">>,        \* "A-c" (lowercased by the schema)
      <<"a", "-">> }            \* "a-"  (does not match the slug pattern)

Emails == { <<"a">>, <<"A">>, <<"c">> }

FirstNames == { <<"A">> }
LastNames == { <<"c">> }

UsernameInputs ==
    { NoneStr,
      <<"A", "c", "1">>,        \* "Ac1" (lowercased; the first numbered variant of "ac")
      <<"1", "a", "c">> }       \* "1ac" (starts with a digit)

Passwords == { "Passw0rd!" }

ROLE_TENANT_ADMIN == "tenant_admin"
ROLE_TENANT_USER == "tenant_user"
ROLE_TENANT_VIEWER == "tenant_viewer"

\* every identifier a request can name: the ones handed out so far and one
\* that no row has
\* the identifiers a request can name: those of the rows present and one that
\* names no row
TenantIds == {t.id : t \in tenants} \cup {uuid4("tenant")}
UserIds == {u.id : u \in users} \cup {uuid4("user")}
RoleIds == {r.id : r \in roles} \cup {uuid4("role")}

-----------------------------------------------------------------------------
(* core/security.py *)

\* hash_password: a salted one-way hash; all that can be observed of it is
\* which plaintext it verifies
hash_password(password) == [verifies |-> password]

\* verify_password
verify_password(password, password_hash) == password_hash.verifies = password

-----------------------------------------------------------------------------
(* core/dependencies.py *)

\* get_current_user_id.  The Authorization header is None or the list of its
\* words, authorization.split(" "); a JSON Web Token is one word, named after
\* who signed it and what it claims.  decode_access_token (core/security.py)
\* returns the claims of a token that carries the server's signature and has
\* not expired, and None for every other word.  The result is the response
\* the dependency leads to: 401 when it raises UnauthorizedException, else 200
\* with the user id it hands to the route, NoId for None.
get_current_user_id(authorization) ==
    LET decoded(claims) == [payload |-> claims, is_none |-> FALSE]
        decode_access_token(token) ==
            CASE token = "signed(sub=user-1)" -> decoded([sub |-> "user-1", exp |-> "later"])
              [] token = "signed(sub=user-2)" -> decoded([sub |-> "user-2", exp |-> "later"])
              [] token = "signed(sub=admin)" -> decoded([sub |-> "admin", exp |-> "later"])
              [] token = "signed(sub=)" -> decoded([sub |-> "", exp |-> "later"])
              [] token = "signed(exp)" -> decoded([exp |-> "later"])
              [] token = "signed()" -> decoded(<<>>)
              [] OTHER -> [payload |-> <<>>, is_none |-> TRUE]
        UUID(hex) == CASE hex = "user-1" -> [raised |-> FALSE, value |-> <<"user", 1>>]
                       [] hex = "user-2" -> [raised |-> FALSE, value |-> <<"user", 2>>]
                       [] OTHER -> [raised |-> TRUE, value |-> NoId]
        returns(user_id) == Response("get_current_user_id", 200, NoId, user_id, NoToken)
        raises == Response("get_current_user_id", 401, NoId, NoId, NoToken)
    IN IF authorization = NoneStr \/ authorization = <<"">> THEN returns(NoId)
       ELSE IF ~(Len(authorization) >= 2 /\ authorization[1] = "Bearer") THEN raises
       ELSE LET payload == decode_access_token(authorization[2])
            IN IF payload.is_none \/ DOMAIN payload.payload = {} THEN raises
               ELSE IF "sub" \in DOMAIN payload.payload /\ payload.payload.sub # ""
               THEN IF UUID(payload.payload.sub).raised THEN raises
                    ELSE returns(UUID(payload.payload.sub).value)
               ELSE returns(NoId)

-----------------------------------------------------------------------------
(* TenantRepository *)

\* TenantRepository.slug_exists
TenantRepository_slug_exists(ts, slug, exclude_id) ==
    \E t \in ts : /\ t.slug = str_lower(slug)
                  /\ (exclude_id # NoId => t.id # exclude_id)

\* business_name_exists comparing the names as they are written
TenantRepository_business_name_exists_exact(ts, business_name, exclude_id) ==
    \E t \in ts : /\ t.business_name = business_name
                  /\ (exclude_id # NoId => t.id # exclude_id)

\* TenantRepository.business_name_exists
TenantRepository_business_name_exists(ts, business_name, exclude_id) ==
    \E t \in ts : /\ str_lower(t.business_name) = str_lower(business_name)
                  /\ (exclude_id # NoId => t.id # exclude_id)

\* the loop of generate_unique_slug returning its first candidate unlooked at
next_free_slug_unchecked(slug, existing_slugs, counter) ==
    slug \o <<"-">> \o int_str(counter)

\* the loop "counter = 1; while True: ..." of generate_unique_slug
RECURSIVE next_free_slug(_, _, _)
next_free_slug(slug, existing_slugs, counter) ==
    LET new_slug == slug \o <<"-">> \o int_str(counter)
    IN IF new_slug \notin existing_slugs THEN new_slug
       ELSE next_free_slug(slug, existing_slugs, counter + 1)

\* generate_unique_slug without the probe for a free slug
TenantRepository_generate_unique_slug_unprobed(ts, base_slug) ==
    strip(sub_non_alnum_runs(str_lower(base_slug)), "-")

\* TenantRepository.generate_unique_slug
TenantRepository_generate_unique_slug(ts, base_slug) ==
    LET slug == strip(sub_non_alnum_runs(str_lower(base_slug)), "-")
        existing_slugs == {t.slug : t \in {u \in ts : sql_like_prefix(slug, u.slug)}}
    IN IF ~TenantRepository_slug_exists(ts, slug, NoId) THEN slug
       ELSE next_free_slug(slug, existing_slugs, 1)

\* BaseRepository.get_by_field("contact_email", value): the matching rows;
\* scalar_one_or_none raises MultipleResultsFound when there are several
Tenant_get_by_contact_email(ts, value) == {t \in ts : t.contact_email = value}

-----------------------------------------------------------------------------
(* schemas/tenant.py *)

\* TenantCreate.generate_slug (mode='before'): v.lower().strip()
TenantCreate_slug(v) == IF Truthy(v) THEN strip(str_lower(v), " ") ELSE v

\* TenantCreate: the field constraints of a parsed body
TenantCreate_valid(data) ==
    /\ Len(data.business_name) >= 2
    /\ data.slug # NoneStr => Len(data.slug) >= 2 /\ slug_pattern(data.slug)

\* TenantUpdate: the field constraints of a parsed body
TenantUpdate_valid(data) ==
    data.business_name.st = "set" => Len(data.business_name.v) >= 2

-----------------------------------------------------------------------------
(* TenantService *)

\* TenantService._generate_slug
TenantService_generate_slug(business_name) ==
    sub_hyphen_runs(strip(sub_non_alnum_runs(str_lower(business_name)), "-"))

\* TenantService.create, the slug of the new tenant
TenantService_create_slug(ts, data) ==
    LET slug == IF Truthy(data.slug) THEN data.slug
                ELSE TenantService_generate_slug(data.business_name)
    IN IF TenantRepository_slug_exists(ts, slug, NoId)
       THEN TenantRepository_generate_unique_slug(ts, slug)
       ELSE slug

\* uuid.UUID(identifier): the text parses when it is 32 hexadecimal digits
\* once its hyphens are taken out (a and c are the letters of this model),
\* and raises ValueError otherwise.  The text of the id of the n-th tenant
\* is taken to be 31 zeros and the digit n; any other text that parses is
\* the id of no row.
UUID(identifier) ==
    LET hex == SelectSeq(identifier, LAMBDA ch : ch # "-")
    IN IF Len(hex) # 32
          \/ \E i \in 1..Len(hex) : hex[i] \notin Digits \cup {"a", "c", "A", "C"}
       THEN [raised |-> TRUE, value |-> NoId]
       ELSE [raised |-> FALSE,
             value |-> IF /\ \A i \in 1..31 : hex[i] = "0"
                          /\ hex[32] # "0"
                       THEN <<"tenant", CHOOSE n \in 1..9 : DigitChar(n) = hex[32]>>
                       ELSE <<"uuid", str_lower(hex)>>]

\* TenantService.get_by_id_or_slug: the tenant found; none stands for
\* TenantNotFoundException, which is not a ValueError and so leaves the try
\* block without the lookup by slug
TenantService_get_by_id_or_slug(ts, identifier) ==
    LET tenant_id == UUID(identifier)
    IN IF ~tenant_id.raised
       THEN BaseRepository_get_by_id(ts, tenant_id.value)
       ELSE {t \in ts : t.slug = str_lower(identifier)}

\* POST /api/v1/tenants: create_tenant and TenantService.create
create_tenant(body) ==
    LET data == [body EXCEPT !.slug = TenantCreate_slug(body.slug)]
    IN IF ~TenantCreate_valid(data)
       THEN /\ resp' = Reply("create_tenant", 422)
            /\ UNCHANGED <<store, nextId>>
       ELSE IF TenantRepository_business_name_exists(tenants, data.business_name, NoId)
       THEN /\ resp' = Reply("create_tenant", 409)
            /\ UNCHANGED <<store, nextId>>
       ELSE /\ Cardinality(tenants) < MaxTenants
            /\ nextId["tenant"] <= MaxId
            /\ tenants' = tenants \cup
                 {[id |-> uuid4("tenant"),
                   business_name |-> data.business_name,
                   slug |-> TenantService_create_slug(tenants, data),
                   contact_email |-> data.contact_email,
                   status |-> "pending_setup",
                   is_active |-> TRUE]}
            /\ nextId' = [nextId EXCEPT !["tenant"] = @ + 1]
            /\ resp' = Response("create_tenant", 201, uuid4("tenant"), NoId, NoToken)
            /\ UNCHANGED <<users, roles, user_roles>>

\* PATCH /api/v1/tenants/{tenant_id}: update_tenant and TenantService.update
update_tenant(tenant_id, data) ==
    IF ~TenantUpdate_valid(data)
    THEN /\ resp' = Reply("update_tenant", 422)
         /\ UNCHANGED <<store, nextId>>
    ELSE IF BaseRepository_get_by_id(tenants, tenant_id) = {}
    THEN /\ resp' = Reply("update_tenant", 404)
         /\ UNCHANGED <<store, nextId>>
    ELSE LET tenant == CHOOSE t \in tenants : t.id = tenant_id
         IN IF /\ data.business_name.st = "set"
               /\ data.business_name.v # tenant.business_name
               /\ TenantRepository_business_name_exists(
                      tenants, data.business_name.v, tenant_id)
            THEN /\ resp' = Reply("update_tenant", 409)
                 /\ UNCHANGED <<store, nextId>>
            ELSE /\ tenants' = BaseRepository_update(tenants, tenant_id, data)
                 /\ resp' = Response("update_tenant", 200, tenant_id, NoId, NoToken)
                 /\ UNCHANGED <<users, roles, user_roles, nextId>>

\* DELETE /api/v1/tenants/{tenant_id}: delete_tenant and TenantService.delete;
\* users.tenant_id and user_roles.user_id are ON DELETE CASCADE
delete_tenant(tenant_id) ==
    IF BaseRepository_get_by_id(tenants, tenant_id) = {}
    THEN /\ resp' = Reply("delete_tenant", 404)
         /\ UNCHANGED <<store, nextId>>
    ELSE /\ tenants' = BaseRepository_delete(tenants, tenant_id)
         /\ users' = {u \in users : u.tenant_id # tenant_id}
         /\ user_roles' = {ur \in user_roles :
                             \E u \in users : u.id = ur.user_id /\ u.tenant_id # tenant_id}
         /\ resp' = Response("delete_tenant", 200, tenant_id, NoId, NoToken)
         /\ UNCHANGED <<roles, nextId>>


-----------------------------------------------------------------------------
(* UserRepository *)

\* UserRepository.username_exists
UserRepository_username_exists(us, username, tenant_id, exclude_id) ==
    \E u \in us : /\ str_lower(u.username) = str_lower(username)
                  /\ u.tenant_id = tenant_id
                  /\ (exclude_id # NoId => u.id # exclude_id)

\* UserRepository.email_exists
UserRepository_email_exists(us, email, tenant_id, exclude_id) ==
    \E u \in us : /\ str_lower(u.email) = str_lower(email)
                  /\ u.tenant_id = tenant_id
                  /\ (exclude_id # NoId => u.id # exclude_id)

\* the loop "counter = 1; while True: ..." of generate_unique_username
RECURSIVE next_free_username(_, _, _)
next_free_username(username, existing_usernames, counter) ==
    LET new_username == username \o int_str(counter)
    IN IF new_username \notin existing_usernames THEN new_username
       ELSE next_free_username(username, existing_usernames, counter + 1)

\* generate_unique_username without the probe for a free username
UserRepository_generate_unique_username_unprobed(us, base_username, tenant_id) ==
    str_lower(base_username)

\* UserRepository.generate_unique_username
UserRepository_generate_unique_username(us, base_username, tenant_id) ==
    LET username == str_lower(base_username)
        existing_usernames ==
            {str_lower(u.username) :
                u \in {w \in us : /\ w.tenant_id = tenant_id
                                  /\ sql_like_prefix(username, str_lower(w.username))}}
    IN IF ~UserRepository_username_exists(us, username, tenant_id, NoId) THEN username
       ELSE next_free_username(username, existing_usernames, 1)

\* UserRepository.get_tenant_owner: the matching rows; scalar_one_or_none
\* raises MultipleResultsFound when there are several
UserRepository_get_tenant_owner(us, tenant_id) ==
    {u \in us : u.tenant_id = tenant_id /\ u.is_tenant_owner}

\* UserRepository.verify_email: the field map it hands to update
UserRepository_verify_email_data ==
    [email_verified |-> Set(TRUE), status |-> Set("active")]

\* UserRepository.deactivate: the field map it hands to update
UserRepository_deactivate_data ==
    [is_active |-> Set(FALSE), status |-> Set("inactive")]

\* the comparison ORDER BY makes on one text column: character by character,
\* in code point order, a prefix before its extensions
RECURSIVE text_before(_, _)
text_before(a, b) ==
    LET chars == <<" ", "-", "0", "1", "2", "3", "4", "5", "6", "7", "8", "9",
                   "A", "C", "_", "a", "c">>
        ord(ch) == CHOOSE i \in 1..Len(chars) : chars[i] = ch
    IN IF b = <<>> THEN FALSE
       ELSE IF a = <<>> THEN TRUE
       ELSE IF Head(a) = Head(b) THEN text_before(Tail(a), Tail(b))
       ELSE ord(Head(a)) < ord(Head(b))

\* UserRepository.get_tenant_users: the lists the query can return.  The rows
\* are ordered by last_name, then first_name, and by nothing else: rows equal
\* in both columns come in whatever order the database produces them, so every
\* order that respects the two columns is a possible result.  OFFSET and LIMIT
\* cut the ordered list.
UserRepository_get_tenant_users(us, tenant_id, skip, limit, include_inactive) ==
    LET rows == {u \in us : /\ u.tenant_id = tenant_id
                            /\ (include_inactive \/ u.is_active)}
        before(u, v) == \/ text_before(u.last_name, v.last_name)
                        \/ /\ u.last_name = v.last_name
                           /\ text_before(u.first_name, v.first_name)
        ordered == {s \in [1..Cardinality(rows) -> rows] :
                       \A i, j \in 1..Cardinality(rows) :
                           i < j => s[i] # s[j] /\ ~before(s[j], s[i])}
        last(s) == IF skip + limit < Len(s) THEN skip + limit ELSE Len(s)
    IN {[i \in 1..(IF last(s) > skip THEN last(s) - skip ELSE 0) |-> s[skip + i]] :
           s \in ordered}

-----------------------------------------------------------------------------
(* RoleRepository *)

\* RoleRepository.get_by_name: the matching rows
RoleRepository_get_by_name(rs, name) == {r \in rs : r.name = name}

\* RoleRepository.get_user_roles
RoleRepository_get_user_roles(urs, user_id) == {ur \in urs : ur.user_id = user_id}

\* RoleRepository.user_has_role
RoleRepository_user_has_role(urs, rs, user_id, role_name) ==
    \E ur \in urs : /\ ur.user_id = user_id
                    /\ \E r \in rs : r.id = ur.role_id /\ r.name = role_name

\* RoleRepository.assign_role_to_user: user_roles after the insert
RoleRepository_assign_role_to_user(urs, user_id, role_id, is_primary) ==
    urs \cup {[user_id |-> user_id, role_id |-> role_id, is_primary |-> is_primary]}

\* RoleRepository.remove_role_from_user: user_roles after the delete
RoleRepository_remove_role_from_user(urs, user_id, role_id) ==
    {ur \in urs : ~(ur.user_id = user_id /\ ur.role_id = role_id)}

\* set_primary_role that raises the flag of the role and leaves the others
RoleRepository_set_primary_role_only(urs, user_id, role_id) ==
    {IF ur.user_id = user_id /\ ur.role_id = role_id
        THEN [ur EXCEPT !.is_primary = TRUE]
        ELSE ur : ur \in urs}

\* RoleRepository.set_primary_role: user_roles after the flush
RoleRepository_set_primary_role(urs, user_id, role_id) ==
    {IF ur.user_id = user_id
        THEN [ur EXCEPT !.is_primary = (ur.role_id = role_id)]
        ELSE ur : ur \in urs}

-----------------------------------------------------------------------------
(* schemas/user.py *)

\* the regular expression ^[a-zA-Z0-9_]+$
user_username_pattern(s) == s # <<>> /\ \A i \in 1..Len(s) : IsWordChar(s[i])

\* UserCreate.normalize_username (mode='before'): v.lower().strip()
UserCreate_username(v) == IF Truthy(v) THEN strip(str_lower(v), " ") ELSE v

\* UserCreate: the field constraints of a parsed body
UserCreate_valid(data) ==
    /\ Len(data.first_name) >= 1 /\ Len(data.last_name) >= 1
    /\ data.username # NoneStr =>
          Len(data.username) >= 3 /\ user_username_pattern(data.username)

-----------------------------------------------------------------------------
(* UserService *)

\* UserService._generate_base_username: first and last name, lowercased
UserService_generate_base_username(first_name, last_name) ==
    str_lower(first_name \o last_name)

\* UserService._assign_role: assign the named system role if it exists
UserService_assign_role(urs, rs, user_id, role_name, is_primary) ==
    IF RoleRepository_get_by_name(rs, role_name) = {} THEN urs
    ELSE RoleRepository_assign_role_to_user(
             urs, user_id,
             (CHOOSE r \in RoleRepository_get_by_name(rs, role_name) : TRUE).id,
             is_primary)

\* UserService.create, lines 144-160: the username of the new user
UserService_create_username(us, data, tenant_id) ==
    IF Truthy(data.username) THEN str_lower(data.username)
    ELSE UserRepository_generate_unique_username(
             us,
             UserService_generate_base_username(data.first_name, data.last_name),
             tenant_id)

\* create_user calling UserService.create with is_tenant_owner = True, as
\* create_tenant_owner does
create_user_as_owner(body, tenant_id) ==
    LET data == [body EXCEPT !.username = UserCreate_username(body.username)]
    IN IF ~UserCreate_valid(data)
       THEN /\ resp' = Reply("create_user", 422)
            /\ UNCHANGED <<store, nextId>>
       ELSE IF UserRepository_email_exists(users, data.email, tenant_id, NoId)
       THEN /\ resp' = Reply("create_user", 409)
            /\ UNCHANGED <<store, nextId>>
       ELSE IF /\ Truthy(data.username)
               /\ UserRepository_username_exists(users, data.username, tenant_id, NoId)
       THEN /\ resp' = Reply("create_user", 409)
            /\ UNCHANGED <<store, nextId>>
       ELSE IF BaseRepository_get_by_id(tenants, tenant_id) = {}
       THEN \* users.tenant_id is a foreign key: the insert raises
            /\ resp' = Reply("create_user", 500)
            /\ UNCHANGED <<store, nextId>>
       ELSE /\ Cardinality(users) < MaxUsers
            /\ nextId["user"] <= MaxId
            /\ users' = users \cup
                 {[id |-> uuid4("user"),
                   tenant_id |-> tenant_id,
                   username |-> UserService_create_username(users, data, tenant_id),
                   email |-> str_lower(data.email),
                   password_hash |-> hash_password(data.password),
                   first_name |-> data.first_name,
                   last_name |-> data.last_name,
                   status |-> "pending",
                   is_active |-> TRUE,
                   is_tenant_owner |-> TRUE,
                   email_verified |-> FALSE]}
            /\ user_roles' = UserService_assign_role(
                                 user_roles, roles, uuid4("user"), ROLE_TENANT_USER, TRUE)
            /\ nextId' = [nextId EXCEPT !["user"] = @ + 1]
            /\ resp' = Response("create_user", 201, tenant_id, uuid4("user"), NoToken)
            /\ UNCHANGED <<tenants, roles>>

\* POST /api/v1/users: create_user and UserService.create
create_user(body, tenant_id) ==
    LET data == [body EXCEPT !.username = UserCreate_username(body.username)]
    IN IF ~UserCreate_valid(data)
       THEN /\ resp' = Reply("create_user", 422)
            /\ UNCHANGED <<store, nextId>>
       ELSE IF UserRepository_email_exists(users, data.email, tenant_id, NoId)
       THEN /\ resp' = Reply("create_user", 409)
            /\ UNCHANGED <<store, nextId>>
       ELSE IF /\ Truthy(data.username)
               /\ UserRepository_username_exists(users, data.username, tenant_id, NoId)
       THEN /\ resp' = Reply("create_user", 409)
            /\ UNCHANGED <<store, nextId>>
       ELSE IF BaseRepository_get_by_id(tenants, tenant_id) = {}
       THEN \* users.tenant_id is a foreign key: the insert raises
            /\ resp' = Reply("create_user", 500)
            /\ UNCHANGED <<store, nextId>>
       ELSE /\ Cardinality(users) < MaxUsers
            /\ nextId["user"] <= MaxId
            /\ users' = users \cup
                 {[id |-> uuid4("user"),
                   tenant_id |-> tenant_id,
                   username |-> UserService_create_username(users, data, tenant_id),
                   email |-> str_lower(data.email),
                   password_hash |-> hash_password(data.password),
                   first_name |-> data.first_name,
                   last_name |-> data.last_name,
                   status |-> "pending",
                   is_active |-> TRUE,
                   is_tenant_owner |-> FALSE,
                   email_verified |-> FALSE]}
            /\ user_roles' = UserService_assign_role(
                                 user_roles, roles, uuid4("user"), ROLE_TENANT_USER, TRUE)
            /\ nextId' = [nextId EXCEPT !["user"] = @ + 1]
            /\ resp' = Response("create_user", 201, tenant_id, uuid4("user"), NoToken)
            /\ UNCHANGED <<tenants, roles>>

\* PATCH /api/v1/users/{user_id}: update_user and UserService.update
update_user(user_id, data) ==
    IF BaseRepository_get_by_id(users, user_id) = {}
    THEN /\ resp' = Reply("update_user", 404)
         /\ UNCHANGED <<store, nextId>>
    ELSE LET user == CHOOSE u \in users : u.id = user_id
         IN IF /\ data.email.st = "set"
               /\ str_lower(data.email.v) # str_lower(user.email)
               /\ UserRepository_email_exists(users, data.email.v, user.tenant_id, user_id)
            THEN /\ resp' = Reply("update_user", 409)
                 /\ UNCHANGED <<store, nextId>>
            ELSE IF data.email.st = "null"
            THEN \* update_dict["email"].lower() on None raises AttributeError
                 /\ resp' = Reply("update_user", 500)
                 /\ UNCHANGED <<store, nextId>>
            ELSE /\ users' = BaseRepository_update(
                                 users, user_id,
                                 [data EXCEPT !.email =
                                     IF @.st = "set" THEN Set(str_lower(@.v)) ELSE @])
                 /\ resp' = Response("update_user", 200, user.tenant_id, user_id, NoToken)
                 /\ UNCHANGED <<tenants, roles, user_roles, nextId>>

\* delete_user without the check of is_tenant_owner
delete_user_unguarded(user_id) ==
    IF BaseRepository_get_by_id(users, user_id) = {}
    THEN /\ resp' = Reply("delete_user", 404)
         /\ UNCHANGED <<store, nextId>>
    ELSE LET user == CHOOSE u \in users : u.id = user_id
         IN /\ users' = BaseRepository_delete(users, user_id)
            /\ user_roles' = {ur \in user_roles : ur.user_id # user_id}
            /\ resp' = Response("delete_user", 200, user.tenant_id, user_id, NoToken)
            /\ UNCHANGED <<tenants, roles, nextId>>

\* DELETE /api/v1/users/{user_id}: delete_user and UserService.delete;
\* user_roles.user_id is ON DELETE CASCADE
delete_user(user_id) ==
    IF BaseRepository_get_by_id(users, user_id) = {}
    THEN /\ resp' = Reply("delete_user", 404)
         /\ UNCHANGED <<store, nextId>>
    ELSE LET user == CHOOSE u \in users : u.id = user_id
         IN IF user.is_tenant_owner
            THEN /\ resp' = Response("delete_user", 400, user.tenant_id, user_id, NoToken)
                 /\ UNCHANGED <<store, nextId>>
            ELSE /\ users' = BaseRepository_delete(users, user_id)
                 /\ user_roles' = {ur \in user_roles : ur.user_id # user_id}
                 /\ resp' = Response("delete_user", 200, user.tenant_id, user_id, NoToken)
                 /\ UNCHANGED <<tenants, roles, nextId>>

\* POST /api/v1/users/{user_id}/verify-email: verify_email and
\* UserService.verify_email
verify_email(user_id) ==
    IF BaseRepository_get_by_id(users, user_id) = {}
    THEN /\ resp' = Reply("verify_email", 404)
         /\ UNCHANGED <<store, nextId>>
    ELSE /\ users' = BaseRepository_update(users, user_id, UserRepository_verify_email_data)
         /\ resp' = Response("verify_email", 200, NoId, user_id, NoToken)
         /\ UNCHANGED <<tenants, roles, user_roles, nextId>>

\* POST /api/v1/users/{user_id}/deactivate: deactivate_user and
\* UserService.deactivate
deactivate_user(user_id) ==
    IF BaseRepository_get_by_id(users, user_id) = {}
    THEN /\ resp' = Reply("deactivate_user", 404)
         /\ UNCHANGED <<store, nextId>>
    ELSE LET user == CHOOSE u \in users : u.id = user_id
         IN IF user.is_tenant_owner
            THEN /\ resp' = Response("deactivate_user", 400, user.tenant_id, user_id, NoToken)
                 /\ UNCHANGED <<store, nextId>>
            ELSE /\ users' = BaseRepository_update(
                                 users, user_id, UserRepository_deactivate_data)
                 /\ resp' = Response("deactivate_user", 200, user.tenant_id, user_id, NoToken)
                 /\ UNCHANGED <<tenants, roles, user_roles, nextId>>


\* GET /api/v1/users without a search term: the responses the request can
\* get.  require_tenant refuses a request that names no tenant; the users come
\* from UserService.get_tenant_users, which hands the call to the repository,
\* and each becomes a UserListItem.
list_users(us, tenant_id, skip, limit, include_inactive) ==
    IF tenant_id = NoId THEN {Reply("list_users", 404)}
    ELSE {[op |-> "list_users", status |-> 200, tenant_id |-> tenant_id,
           user_id |-> NoId, role_id |-> NoId, token |-> NoToken,
           users |-> [i \in 1..Len(found) |->
                         [id |-> found[i].id, username |-> found[i].username,
                          first_name |-> found[i].first_name,
                          last_name |-> found[i].last_name,
                          email |-> found[i].email,
                          is_active |-> found[i].is_active,
                          is_tenant_owner |-> found[i].is_tenant_owner]]] :
             found \in UserRepository_get_tenant_users(us, tenant_id, skip, limit,
                                                       include_inactive)}

-----------------------------------------------------------------------------
(* api/v1/roles.py *)

RoleNames == {ROLE_TENANT_ADMIN, "editor"}
DisplayNames == {"Label"}

\* POST /api/v1/roles: create_role
create_role(name, display_name) ==
    IF RoleRepository_get_by_name(roles, name) # {}
    THEN /\ resp' = Reply("create_role", 409)
         /\ UNCHANGED <<store, nextId>>
    ELSE /\ Cardinality(roles) < MaxRoles
         /\ nextId["role"] <= MaxId
         /\ roles' = roles \cup {[id |-> uuid4("role"), name |-> name,
                                  display_name |-> display_name,
                                  is_system_role |-> FALSE]}
         /\ nextId' = [nextId EXCEPT !["role"] = @ + 1]
         /\ resp' = RoleReply("create_role", 201, NoId, uuid4("role"))
         /\ UNCHANGED <<tenants, users, user_roles>>

\* PATCH /api/v1/roles/{role_id}: update_role
update_role(role_id, data) ==
    IF BaseRepository_get_by_id(roles, role_id) = {}
    THEN /\ resp' = RoleReply("update_role", 404, NoId, role_id)
         /\ UNCHANGED <<store, nextId>>
    ELSE /\ roles' = IF \A k \in DOMAIN data : data[k].st = "absent" THEN roles
                     ELSE BaseRepository_update(roles, role_id, data)
         /\ resp' = RoleReply("update_role", 200, NoId, role_id)
         /\ UNCHANGED <<tenants, users, user_roles, nextId>>

\* delete_role that does not look at is_system_role
delete_role_unprotected(role_id) ==
    IF BaseRepository_get_by_id(roles, role_id) = {}
    THEN /\ resp' = RoleReply("delete_role", 404, NoId, role_id)
         /\ UNCHANGED <<store, nextId>>
    ELSE IF \E ur \in user_roles : ur.role_id = role_id
    THEN /\ resp' = RoleReply("delete_role", 400, NoId, role_id)
         /\ UNCHANGED <<store, nextId>>
    ELSE /\ roles' = BaseRepository_delete(roles, role_id)
         /\ user_roles' = {ur \in user_roles : ur.role_id # role_id}
         /\ resp' = RoleReply("delete_role", 200, NoId, role_id)
         /\ UNCHANGED <<tenants, users, nextId>>

\* DELETE /api/v1/roles/{role_id}: delete_role
delete_role(role_id) ==
    IF BaseRepository_get_by_id(roles, role_id) = {}
    THEN /\ resp' = RoleReply("delete_role", 404, NoId, role_id)
         /\ UNCHANGED <<store, nextId>>
    ELSE LET role == CHOOSE r \in roles : r.id = role_id
         IN IF role.is_system_role
            THEN /\ resp' = RoleReply("delete_role", 403, NoId, role_id)
                 /\ UNCHANGED <<store, nextId>>
            ELSE IF \E ur \in user_roles : ur.role_id = role_id
            THEN /\ resp' = RoleReply("delete_role", 400, NoId, role_id)
                 /\ UNCHANGED <<store, nextId>>
            ELSE /\ roles' = BaseRepository_delete(roles, role_id)
                 /\ user_roles' = {ur \in user_roles : ur.role_id # role_id}
                 /\ resp' = RoleReply("delete_role", 200, NoId, role_id)
                 /\ UNCHANGED <<tenants, users, nextId>>

\* POST /api/v1/roles/assign: assign_role
assign_role(user_id, role_id, is_primary) ==
    IF BaseRepository_get_by_id(users, user_id) = {}
       \/ BaseRepository_get_by_id(roles, role_id) = {}
    THEN /\ resp' = RoleReply("assign_role", 404, user_id, role_id)
         /\ UNCHANGED <<store, nextId>>
    ELSE LET role == CHOOSE r \in roles : r.id = role_id
             assigned == RoleRepository_assign_role_to_user(
                             user_roles, user_id, role_id, is_primary)
         IN IF RoleRepository_user_has_role(user_roles, roles, user_id, role.name)
            THEN /\ resp' = RoleReply("assign_role", 409, user_id, role_id)
                 /\ UNCHANGED <<store, nextId>>
            ELSE /\ user_roles' =
                      IF is_primary
                      THEN RoleRepository_set_primary_role(assigned, user_id, role_id)
                      ELSE assigned
                 /\ resp' = RoleReply("assign_role", 201, user_id, role_id)
                 /\ UNCHANGED <<tenants, users, roles, nextId>>

\* remove_role that refuses only when no assignment is left to remove
remove_role_below_one(user_id, role_id) ==
    IF BaseRepository_get_by_id(users, user_id) = {}
       \/ BaseRepository_get_by_id(roles, role_id) = {}
    THEN /\ resp' = RoleReply("remove_role", 404, user_id, role_id)
         /\ UNCHANGED <<store, nextId>>
    ELSE LET role == CHOOSE r \in roles : r.id = role_id
         IN IF ~RoleRepository_user_has_role(user_roles, roles, user_id, role.name)
            THEN /\ resp' = RoleReply("remove_role", 400, user_id, role_id)
                 /\ UNCHANGED <<store, nextId>>
            ELSE IF Cardinality(RoleRepository_get_user_roles(user_roles, user_id)) < 1
            THEN /\ resp' = RoleReply("remove_role", 400, user_id, role_id)
                 /\ UNCHANGED <<store, nextId>>
            ELSE /\ user_roles' = RoleRepository_remove_role_from_user(
                                      user_roles, user_id, role_id)
                 /\ resp' = RoleReply("remove_role", 200, user_id, role_id)
                 /\ UNCHANGED <<tenants, users, roles, nextId>>

\* DELETE /api/v1/roles/assign: remove_role
remove_role(user_id, role_id) ==
    IF BaseRepository_get_by_id(users, user_id) = {}
       \/ BaseRepository_get_by_id(roles, role_id) = {}
    THEN /\ resp' = RoleReply("remove_role", 404, user_id, role_id)
         /\ UNCHANGED <<store, nextId>>
    ELSE LET role == CHOOSE r \in roles : r.id = role_id
         IN IF ~RoleRepository_user_has_role(user_roles, roles, user_id, role.name)
            THEN /\ resp' = RoleReply("remove_role", 400, user_id, role_id)
                 /\ UNCHANGED <<store, nextId>>
            ELSE IF Cardinality(RoleRepository_get_user_roles(user_roles, user_id)) <= 1
            THEN /\ resp' = RoleReply("remove_role", 400, user_id, role_id)
                 /\ UNCHANGED <<store, nextId>>
            ELSE /\ user_roles' = RoleRepository_remove_role_from_user(
                                      user_roles, user_id, role_id)
                 /\ resp' = RoleReply("remove_role", 200, user_id, role_id)
                 /\ UNCHANGED <<tenants, users, roles, nextId>>

\* remove_role of a request that runs next to others, up to the count of
\* the user's roles: the request answers 404 or 400 as above, or holds what
\* it has read until its delete runs
remove_role_count(client, user_id, role_id) ==
    IF BaseRepository_get_by_id(users, user_id) = {}
       \/ BaseRepository_get_by_id(roles, role_id) = {}
    THEN /\ resp' = RoleReply("remove_role", 404, user_id, role_id)
         /\ UNCHANGED <<store, nextId, inflight>>
    ELSE LET role == CHOOSE r \in roles : r.id = role_id
             current_roles == RoleRepository_get_user_roles(user_roles, user_id)
         IN IF ~RoleRepository_user_has_role(user_roles, roles, user_id, role.name)
            THEN /\ resp' = RoleReply("remove_role", 400, user_id, role_id)
                 /\ UNCHANGED <<store, nextId, inflight>>
            ELSE IF Cardinality(current_roles) <= 1
            THEN /\ resp' = RoleReply("remove_role", 400, user_id, role_id)
                 /\ UNCHANGED <<store, nextId, inflight>>
            ELSE /\ \A r \in inflight : r.client # client
                 /\ inflight' = inflight \cup
                      {[op |-> "remove_role", client |-> client,
                        user_id |-> user_id, role_id |-> role_id,
                        current_roles |-> Cardinality(current_roles)]}
                 /\ UNCHANGED <<store, nextId, resp>>

\* remove_role of a request that has counted, from remove_role_from_user on:
\* the assignment is looked up again and deleted, 500 when it is gone
remove_role_delete(r) ==
    LET removed == \E ur \in user_roles :
                       ur.user_id = r.user_id /\ ur.role_id = r.role_id
    IN /\ inflight' = inflight \ {r}
       /\ IF ~removed
          THEN /\ resp' = RoleReply("remove_role", 500, r.user_id, r.role_id)
               /\ UNCHANGED <<store, nextId>>
          ELSE /\ user_roles' = RoleRepository_remove_role_from_user(
                                    user_roles, r.user_id, r.role_id)
               /\ resp' = RoleReply("remove_role", 200, r.user_id, r.role_id)
               /\ UNCHANGED <<tenants, users, roles, nextId>>

\* the loop of bulk_assign_role without the question "user already has role"
RECURSIVE bulk_assign_loop_unasked(_, _, _, _)
bulk_assign_loop_unasked(acc, user_ids, i, role) ==
    IF i > Len(user_ids) THEN acc
    ELSE IF BaseRepository_get_by_id(users, user_ids[i]) = {}
    THEN bulk_assign_loop_unasked([acc EXCEPT !.failed = Append(@, user_ids[i])],
                                  user_ids, i + 1, role)
    ELSE bulk_assign_loop_unasked(
             [acc EXCEPT !.urs = RoleRepository_assign_role_to_user(
                                     @, user_ids[i], role.id, FALSE),
                         !.successful = Append(@, user_ids[i])],
             user_ids, i + 1, role)

\* the loop "for user_id in assignment.user_ids" of bulk_assign_role:
\* user_roles and the lists successful and failed (user ids only) after the
\* users user_ids[i..] have been processed
RECURSIVE bulk_assign_loop(_, _, _, _)
bulk_assign_loop(acc, user_ids, i, role) ==
    IF i > Len(user_ids) THEN acc
    ELSE IF BaseRepository_get_by_id(users, user_ids[i]) = {}
    THEN bulk_assign_loop([acc EXCEPT !.failed = Append(@, user_ids[i])],
                          user_ids, i + 1, role)
    ELSE IF RoleRepository_user_has_role(acc.urs, roles, user_ids[i], role.name)
    THEN bulk_assign_loop([acc EXCEPT !.failed = Append(@, user_ids[i])],
                          user_ids, i + 1, role)
    ELSE bulk_assign_loop(
             [acc EXCEPT !.urs = RoleRepository_assign_role_to_user(
                                     @, user_ids[i], role.id, FALSE),
                         !.successful = Append(@, user_ids[i])],
             user_ids, i + 1, role)

\* POST /api/v1/roles/assign/bulk: bulk_assign_role; the response is the
\* BulkRoleAssignmentResponse, the lists successful and failed as user ids
bulk_assign_role(user_ids, role_id) ==
    IF BaseRepository_get_by_id(roles, role_id) = {}
    THEN /\ resp' = RoleReply("bulk_assign_role", 404, NoId, role_id)
         /\ UNCHANGED <<store, nextId>>
    ELSE LET done == bulk_assign_loop(
                         [urs |-> user_roles, successful |-> <<>>, failed |-> <<>>],
                         user_ids, 1, CHOOSE r \in roles : r.id = role_id)
         IN /\ user_roles' = done.urs
            /\ resp' = [op |-> "bulk_assign_role", status |-> 200,
                        tenant_id |-> NoId, user_id |-> NoId, role_id |-> role_id,
                        token |-> NoToken, successful |-> done.successful,
                        failed |-> done.failed, total_processed |-> Len(user_ids)]
            /\ UNCHANGED <<tenants, users, roles, nextId>>

\* PUT /api/v1/roles/users/{user_id}/primary/{role_id}: set_primary_role
set_primary_role(user_id, role_id) ==
    IF BaseRepository_get_by_id(users, user_id) = {}
       \/ BaseRepository_get_by_id(roles, role_id) = {}
    THEN /\ resp' = RoleReply("set_primary_role", 404, user_id, role_id)
         /\ UNCHANGED <<store, nextId>>
    ELSE LET role == CHOOSE r \in roles : r.id = role_id
         IN IF ~RoleRepository_user_has_role(user_roles, roles, user_id, role.name)
            THEN /\ resp' = RoleReply("set_primary_role", 400, user_id, role_id)
                 /\ UNCHANGED <<store, nextId>>
            ELSE /\ user_roles' = RoleRepository_set_primary_role(
                                      user_roles, user_id, role_id)
                 /\ resp' = RoleReply("set_primary_role", 200, user_id, role_id)
                 /\ UNCHANGED <<tenants, users, roles, nextId>>


-----------------------------------------------------------------------------
(* Authentication: UserRepository lookups, UserService.authenticate and *)
(* api/v1/auth.py                                                       *)

\* UserRepository.get_by_email: the rows of the query, before
\* scalar_one_or_none
UserRepository_get_by_email(us, email, tenant_id) ==
    {u \in us : str_lower(u.email) = str_lower(email) /\ u.tenant_id = tenant_id}

\* get_by_username that does not look at the tenant
UserRepository_get_by_username_any_tenant(us, username, tenant_id) ==
    {u \in us : str_lower(u.username) = str_lower(username)}

\* UserRepository.get_by_username: the rows of the query, before
\* scalar_one_or_none
UserRepository_get_by_username(us, username, tenant_id) ==
    {u \in us : str_lower(u.username) = str_lower(username) /\ u.tenant_id = tenant_id}

\* authenticate that raises for an inactive user
UserService_authenticate_raising(us, username_or_email, password, tenant_id) ==
    LET by_email == UserRepository_get_by_email(us, username_or_email, tenant_id)
        found == IF by_email # {} THEN by_email
                 ELSE UserRepository_get_by_username(us, username_or_email, tenant_id)
    IN IF \E u \in found : ~u.is_active
       THEN [raised |-> TRUE, user |-> {}]
       ELSE [raised |-> FALSE,
             user |-> {u \in found : verify_password(password, u.password_hash)}]

\* UserService.authenticate: the user returned (no user: None), or raised
\* when scalar_one_or_none finds more than one row
UserService_authenticate(us, username_or_email, password, tenant_id) ==
    LET by_email == UserRepository_get_by_email(us, username_or_email, tenant_id)
        by_username ==
            UserRepository_get_by_username(us, username_or_email, tenant_id)
        found == IF by_email # {} THEN by_email ELSE by_username
    IN IF Cardinality(found) > 1
       THEN [raised |-> TRUE, user |-> {}]
       ELSE [raised |-> FALSE,
             user |-> {u \in found : /\ u.is_active
                                     /\ verify_password(password, u.password_hash)}]

\* the response of both login endpoints after the tenant is known: 401 with
\* the one detail text, or the TokenResponse and the claims of its token
token_or_unauthorized(op, request, www_authenticate) ==
    LET auth == UserService_authenticate(users, request.username_or_email,
                                         request.password, request.tenant_id)
    IN IF auth.raised
       THEN [op |-> op, status |-> 500, detail |-> "Internal Server Error",
             www_authenticate |-> FALSE, tenant_id |-> NoId, user_id |-> NoId,
             role_id |-> NoId, token |-> NoToken]
       ELSE IF auth.user = {}
       THEN [op |-> op, status |-> 401,
             detail |-> "Incorrect username/email or password",
             www_authenticate |-> www_authenticate, tenant_id |-> NoId,
             user_id |-> NoId, role_id |-> NoId, token |-> NoToken]
       ELSE LET user == CHOOSE u \in auth.user : TRUE
                names == {r.name : r \in {r \in roles :
                             \E ur \in user_roles : /\ ur.user_id = user.id
                                                    /\ ur.role_id = r.id}}
            IN [op |-> op, status |-> 200, detail |-> "",
                www_authenticate |-> FALSE, tenant_id |-> user.tenant_id,
                user_id |-> user.id, role_id |-> NoId,
                token |-> [sub |-> user.id, tenant_id |-> user.tenant_id,
                           username |-> user.username, roles |-> names]]

\* POST /api/v1/auth/token: login_for_access_token, behind require_tenant;
\* the response to the form and the X-Tenant-ID header (NoId: no header)
login_for_access_token(request) ==
    IF request.tenant_id = NoId
    THEN [op |-> "token", status |-> 404, detail |-> "Tenant not found",
          www_authenticate |-> FALSE, tenant_id |-> NoId, user_id |-> NoId,
          role_id |-> NoId, token |-> NoToken]
    ELSE token_or_unauthorized("token", request, TRUE)

\* POST /api/v1/auth/login: login; the response to the LoginRequest body
login(request) ==
    IF Len(request.username_or_email) < 3 \/ Len(request.password) < 1
    THEN [op |-> "login", status |-> 422, detail |-> "validation error",
          www_authenticate |-> FALSE, tenant_id |-> NoId, user_id |-> NoId,
          role_id |-> NoId, token |-> NoToken]
    ELSE IF request.tenant_id = NoId
    THEN [op |-> "login", status |-> 400, detail |-> "Tenant ID is required",
          www_authenticate |-> FALSE, tenant_id |-> NoId, user_id |-> NoId,
          role_id |-> NoId, token |-> NoToken]
    ELSE token_or_unauthorized("login", request, FALSE)

\* POST /api/v1/auth/change-password: change_password.  token is the claims
\* of the bearer token (sub, tenant_id, username), NoToken when there is no
\* token or it does not decode.  The current password is verified through
\* authenticate, under the username and the tenant of the token; the new hash
\* is written to the row whose id is the sub of the token, and update leaves
\* the table as it is when no row has that id.
change_password(token, request) ==
    LET auth == UserService_authenticate(users, token.username,
                                         request.current_password, token.tenant_id)
        reply(status) == Response("change_password", status, token.tenant_id,
                                  token.sub, NoToken)
                             @@ [username |-> IF token = NoToken THEN NoneStr
                                              ELSE token.username,
                                 request |-> request]
    IN IF token = NoToken
       THEN resp' = reply(401) /\ UNCHANGED <<store, nextId>>
       ELSE IF \/ Len(request.current_password) < 1
               \/ Len(request.new_password) < 8 \/ Len(request.new_password) > 128
       THEN resp' = reply(422) /\ UNCHANGED <<store, nextId>>
       ELSE IF auth.raised
       THEN resp' = reply(500) /\ UNCHANGED <<store, nextId>>
       ELSE IF auth.user = {}
       THEN resp' = reply(400) /\ UNCHANGED <<store, nextId>>
       ELSE /\ users' = BaseRepository_update(
                            users, token.sub,
                            [password_hash |-> Set(hash_password(request.new_password))])
            /\ resp' = reply(200)
            /\ UNCHANGED <<tenants, roles, user_roles, nextId>>

-----------------------------------------------------------------------------
(* schemas/bff/web_requests.py *)

\* the regular expression ^[a-zA-Z][a-zA-Z0-9_]*$
signup_username_pattern(s) ==
    /\ s # <<>>
    /\ s[1] \in LowerLetters \cup UpperLetters
    /\ \A i \in 1..Len(s) : IsWordChar(s[i])

\* the regular expression ^[a-zA-Z\s'\-\.]+$
owner_name_pattern(s) ==
    /\ s # <<>>
    /\ \A i \in 1..Len(s) :
          s[i] \in LowerLetters \cup UpperLetters \cup {" ", "'", "-", "."}

\* TenantSignupRequest: the body after str_strip_whitespace and the field
\* validators (normalize_slug, normalize_username, validate_business_name,
\* validate_owner_name) have run
TenantSignupRequest_parse(body) ==
    [body EXCEPT
        !.business_name = join_split(strip(@, " ")),
        !.business_slug = IF Truthy(@) THEN strip(str_lower(@), " ") ELSE @,
        !.username = IF Truthy(@) THEN strip(str_lower(@), " ") ELSE @,
        !.owner_first_name = strip(@, " "),
        !.owner_last_name = strip(@, " ")]

\* TenantSignupRequest: the field constraints; the bodies of this model all
\* carry a strong password, its confirmation and both consents
TenantSignupRequest_valid(body) ==
    LET request == TenantSignupRequest_parse(body)
    IN /\ Len(strip(body.business_name, " ")) >= 2
       /\ Len(request.business_name) >= 2
       /\ request.business_slug # NoneStr =>
             Len(request.business_slug) >= 2 /\ slug_pattern(request.business_slug)
       /\ Len(request.owner_first_name) >= 1 /\ owner_name_pattern(request.owner_first_name)
       /\ Len(request.owner_last_name) >= 1 /\ owner_name_pattern(request.owner_last_name)
       /\ request.username # NoneStr =>
             Len(request.username) >= 3 /\ signup_username_pattern(request.username)

-----------------------------------------------------------------------------
(* OnboardingService *)

\* OnboardingService._slugify: the slug normalisation shared with
\* TenantService._generate_slug
OnboardingService_slugify(business_name) ==
    sub_hyphen_runs(strip(sub_non_alnum_runs(str_lower(business_name)), "-"))

\* OnboardingService._validate_username_format: 3 to 50 characters matching
\* ^[a-zA-Z][a-zA-Z0-9_]*$
OnboardingService_validate_username_format(username) ==
    Len(username) >= 3 /\ Len(username) <= 50 /\ signup_username_pattern(username)

\* OnboardingService._generate_username_options: the first candidate,
\* first name followed by last name, lowercased
OnboardingService_generate_username_options_first(first_name, last_name) ==
    str_lower(first_name \o last_name)

\* GET /bff/web/onboarding/username/validate: validate_username and
\* OnboardingService.validate_username.  A Python value carries its type:
\* the local suggestions starts as a list and, for a username that is taken,
\* becomes what generate_username_suggestions returns, which is a
\* UsernameGenerationResponse holding the list.  The field suggestions of
\* UsernameValidationResponse is a List[str]: the constructor takes a list of
\* strings and raises ValidationError for a response object, whether it
\* refuses the object or walks through its (field, value) pairs; the route
\* does not catch it.  The variations of the base username
\* (_generate_from_base_username) are the numbered ones free in the tenant.
OnboardingService_validate_username(us, username, tenant_id) ==
    LET list(items) == [type |-> "list", items |-> items]
        numbered == {k \in 1..(Cardinality(us) + 3) :
                        ~UserRepository_username_exists(
                             us, username \o int_str(k), tenant_id, NoId)}
        RECURSIVE first(_, _)
        first(count, from) ==
            IF count = 0 THEN <<>>
            ELSE LET k == CHOOSE n \in numbered :
                              n >= from /\ \A m \in numbered : m >= from => n <= m
                 IN <<username \o int_str(k)>> \o first(count - 1, k + 1)
        generate_username_suggestions(count, base_username) ==
            [type |-> "UsernameGenerationResponse",
             suggestions |-> first(count, 1),
             generated_from |-> base_username,
             recommended |-> first(count, 1)[1]]
        is_valid_format == OnboardingService_validate_username_format(username)
        is_available ==
            /\ is_valid_format
            /\ tenant_id # NoId =>
                   ~UserRepository_username_exists(us, str_lower(username), tenant_id, NoId)
        suggestions == IF is_valid_format /\ ~is_available
                       THEN generate_username_suggestions(3, username)
                       ELSE list(<<>>)
    IN IF Len(username) < 3 \/ Len(username) > 50
       THEN Response("validate_username", 422, tenant_id, NoId, NoToken)
       ELSE IF suggestions.type # "list"
       THEN Response("validate_username", 500, tenant_id, NoId, NoToken)
       ELSE [op |-> "validate_username", status |-> 200, tenant_id |-> tenant_id,
             user_id |-> NoId, role_id |-> NoId, token |-> NoToken,
             is_valid_format |-> is_valid_format, is_available |-> is_available,
             suggestions |-> suggestions.items]

\* OnboardingService.validate_slug: is_valid_format and is_available
OnboardingService_validate_slug(ts, slug) ==
    LET is_valid_format == slug_pattern(str_lower(slug))
    IN [is_valid_format |-> is_valid_format,
        is_available |-> /\ is_valid_format
                         /\ ~TenantRepository_slug_exists(ts, str_lower(slug), NoId)]

\* OnboardingService.validate_signup_request: the codes of the errors it
\* collects, and whether the contact-e-mail lookup raises
OnboardingService_validate_signup_request(ts, request) ==
    LET slug_validation == OnboardingService_validate_slug(ts, request.business_slug)
        existing_tenant == Tenant_get_by_contact_email(ts, str_lower(request.owner_email))
    IN [raised |-> Cardinality(existing_tenant) > 1,
        errors |->
            {code \in {"DUPLICATE_BUSINESS_NAME", "INVALID_SLUG", "DUPLICATE_SLUG",
                       "INVALID_USERNAME", "DUPLICATE_EMAIL"} :
                \/ /\ code = "DUPLICATE_BUSINESS_NAME"
                   /\ TenantRepository_business_name_exists(ts, request.business_name, NoId)
                \/ /\ code = "INVALID_SLUG"
                   /\ Truthy(request.business_slug)
                   /\ ~slug_validation.is_available
                   /\ ~slug_validation.is_valid_format
                \/ /\ code = "DUPLICATE_SLUG"
                   /\ Truthy(request.business_slug)
                   /\ ~slug_validation.is_available
                   /\ slug_validation.is_valid_format
                \/ /\ code = "INVALID_USERNAME"
                   /\ Truthy(request.username)
                   /\ ~OnboardingService_validate_username_format(request.username)
                \/ /\ code = "DUPLICATE_EMAIL"
                   /\ existing_tenant # {}}]

\* step 2 taking the slug as it comes, without asking whether it is free
OnboardingService_signup_slug_unprobed(ts, request) ==
    IF ~Truthy(request.business_slug)
    THEN OnboardingService_slugify(request.business_name)
    ELSE request.business_slug

\* OnboardingService.signup_tenant, step 2: the slug of the new tenant
OnboardingService_signup_slug(ts, request) ==
    IF ~Truthy(request.business_slug)
    THEN TenantRepository_generate_unique_slug(
             ts, OnboardingService_slugify(request.business_name))
    ELSE IF TenantRepository_slug_exists(ts, request.business_slug, NoId)
    THEN TenantRepository_generate_unique_slug(ts, request.business_slug)
    ELSE request.business_slug

\* OnboardingService.signup_tenant, step 3: the username of the owner
OnboardingService_signup_username(request) ==
    IF ~Truthy(request.username)
    THEN OnboardingService_generate_username_options_first(
             request.owner_first_name, request.owner_last_name)
    ELSE request.username

\* _create_tenant inserting the tenant as already set up
OnboardingService_create_tenant_active(id, business_name, slug, contact_email) ==
    [id |-> id,
     business_name |-> business_name,
     slug |-> str_lower(slug),
     contact_email |-> str_lower(contact_email),
     status |-> "active",
     is_active |-> TRUE]

\* OnboardingService._create_tenant: the row it inserts
OnboardingService_create_tenant(id, business_name, slug, contact_email) ==
    [id |-> id,
     business_name |-> business_name,
     slug |-> str_lower(slug),
     contact_email |-> str_lower(contact_email),
     status |-> "pending_setup",
     is_active |-> TRUE]

\* OnboardingService._create_owner_user: the row it inserts
OnboardingService_create_owner_user(id, tenant_id, username, email, password, first_name, last_name) ==
    [id |-> id,
     tenant_id |-> tenant_id,
     username |-> str_lower(username),
     email |-> str_lower(email),
     password_hash |-> hash_password(password),
     first_name |-> first_name,
     last_name |-> last_name,
     status |-> "pending",
     is_active |-> TRUE,
     is_tenant_owner |-> TRUE,
     email_verified |-> FALSE]

\* _assign_admin_role assigning a role whether or not tenant_admin exists
OnboardingService_assign_admin_role_unasked(urs, rs, user_id) ==
    RoleRepository_assign_role_to_user(
        urs, user_id,
        IF RoleRepository_get_by_name(rs, ROLE_TENANT_ADMIN) = {} THEN NoId
        ELSE (CHOOSE r \in RoleRepository_get_by_name(rs, ROLE_TENANT_ADMIN) : TRUE).id,
        TRUE)

\* OnboardingService._assign_admin_role: user_roles after the call
OnboardingService_assign_admin_role(urs, rs, user_id) ==
    IF RoleRepository_get_by_name(rs, ROLE_TENANT_ADMIN) = {} THEN urs
    ELSE RoleRepository_assign_role_to_user(
             urs, user_id,
             (CHOOSE r \in RoleRepository_get_by_name(rs, ROLE_TENANT_ADMIN) : TRUE).id,
             TRUE)

\* OnboardingService._generate_access_token: the claims sub and tenant_id of
\* the token
OnboardingService_generate_access_token(user, tenant) ==
    [sub |-> user.id, tenant_id |-> tenant.id]

\* POST /bff/web/onboarding/signup: signup_tenant and
\* OnboardingService.signup_tenant
signup_tenant(body, auto_login) ==
    IF ~TenantSignupRequest_valid(body)
    THEN /\ resp' = Reply("signup_tenant", 422)
         /\ UNCHANGED <<store, nextId>>
    ELSE LET request == TenantSignupRequest_parse(body)
             validation_result == OnboardingService_validate_signup_request(tenants, request)
             tenant == OnboardingService_create_tenant(
                           uuid4("tenant"), request.business_name,
                           OnboardingService_signup_slug(tenants, request),
                           request.owner_email)
             user == OnboardingService_create_owner_user(
                         uuid4("user"), tenant.id,
                         OnboardingService_signup_username(request),
                         request.owner_email, request.password,
                         request.owner_first_name, request.owner_last_name)
         IN IF validation_result.raised
            THEN /\ resp' = Reply("signup_tenant", 500)
                 /\ UNCHANGED <<store, nextId>>
            ELSE IF validation_result.errors # {}
            THEN /\ resp' = Reply("signup_tenant", 422)
                 /\ UNCHANGED <<store, nextId>>
            ELSE /\ Cardinality(tenants) < MaxTenants
                 /\ Cardinality(users) < MaxUsers
                 /\ nextId["tenant"] <= MaxId /\ nextId["user"] <= MaxId
                 /\ tenants' = tenants \cup {tenant}
                 /\ users' = users \cup {user}
                 /\ user_roles' = OnboardingService_assign_admin_role(
                                      user_roles, roles, user.id)
                 /\ nextId' = [nextId EXCEPT !["tenant"] = @ + 1, !["user"] = @ + 1]
                 /\ resp' = Response(
                        "signup_tenant", 201, tenant.id, user.id,
                        IF auto_login
                        THEN OnboardingService_generate_access_token(user, tenant)
                        ELSE NoToken)
                 /\ UNCHANGED roles

\* OnboardingService.signup_tenant, steps 1 to 3, of a request that runs
\* next to others: it validates, probes for a free slug, picks the username
\* and holds what it has read until its inserts run
signup_tenant_probe(client, body) ==
    IF ~TenantSignupRequest_valid(body)
    THEN /\ resp' = Reply("signup_tenant", 422)
         /\ UNCHANGED <<store, nextId, inflight>>
    ELSE LET request == TenantSignupRequest_parse(body)
             validation_result == OnboardingService_validate_signup_request(tenants, request)
         IN IF validation_result.raised
            THEN /\ resp' = Reply("signup_tenant", 500)
                 /\ UNCHANGED <<store, nextId, inflight>>
            ELSE IF validation_result.errors # {}
            THEN /\ resp' = Reply("signup_tenant", 422)
                 /\ UNCHANGED <<store, nextId, inflight>>
            ELSE /\ \A r \in inflight : r.client # client
                 /\ inflight' = inflight \cup
                      {[op |-> "signup_tenant",
                        client |-> client,
                        request |-> request,
                        slug |-> OnboardingService_signup_slug(tenants, request),
                        username |-> OnboardingService_signup_username(request)]}
                 /\ UNCHANGED <<store, nextId, resp>>

\* steps 4 to 8 on a table without the unique index on slug
signup_tenant_insert_unindexed(r) ==
    LET tenant == OnboardingService_create_tenant(
                      uuid4("tenant"), r.request.business_name, r.slug,
                      r.request.owner_email)
        user == OnboardingService_create_owner_user(
                    uuid4("user"), tenant.id, r.username,
                    r.request.owner_email, r.request.password,
                    r.request.owner_first_name, r.request.owner_last_name)
    IN /\ Cardinality(tenants) < MaxTenants
       /\ Cardinality(users) < MaxUsers
       /\ nextId["tenant"] <= MaxId /\ nextId["user"] <= MaxId
       /\ inflight' = inflight \ {r}
       /\ tenants' = tenants \cup {tenant}
       /\ users' = users \cup {user}
       /\ user_roles' = OnboardingService_assign_admin_role(user_roles, roles, user.id)
       /\ nextId' = [nextId EXCEPT !["tenant"] = @ + 1, !["user"] = @ + 1]
       /\ resp' = Response("signup_tenant", 201, tenant.id, user.id, NoToken)
                      @@ [slug |-> tenant.slug]
       /\ UNCHANGED roles

\* OnboardingService.signup_tenant, steps 4 to 8, of a request that has
\* probed: the tenant is inserted under the unique index ix_tenants_slug.
\* The flush of a row whose slug is stored by now raises IntegrityError,
\* which signup_tenant catches neither as DuplicateException nor as
\* ValidationException: the general handler answers 500 and nothing of the
\* request is stored.
signup_tenant_insert(r) ==
    LET tenant == OnboardingService_create_tenant(
                      uuid4("tenant"), r.request.business_name, r.slug,
                      r.request.owner_email)
        user == OnboardingService_create_owner_user(
                    uuid4("user"), tenant.id, r.username,
                    r.request.owner_email, r.request.password,
                    r.request.owner_first_name, r.request.owner_last_name)
    IN IF \E t \in tenants : t.slug = tenant.slug
       THEN /\ inflight' = inflight \ {r}
            /\ resp' = Reply("signup_tenant", 500) @@ [slug |-> tenant.slug]
            /\ UNCHANGED <<store, nextId>>
       ELSE /\ Cardinality(tenants) < MaxTenants
            /\ Cardinality(users) < MaxUsers
            /\ nextId["tenant"] <= MaxId /\ nextId["user"] <= MaxId
            /\ inflight' = inflight \ {r}
            /\ tenants' = tenants \cup {tenant}
            /\ users' = users \cup {user}
            /\ user_roles' = OnboardingService_assign_admin_role(
                                 user_roles, roles, user.id)
            /\ nextId' = [nextId EXCEPT !["tenant"] = @ + 1, !["user"] = @ + 1]
            /\ resp' = Response("signup_tenant", 201, tenant.id, user.id, NoToken)
                           @@ [slug |-> tenant.slug]
            /\ UNCHANGED roles

\* validate_signup that keeps the tenant it has validated
validate_signup_creating(body) ==
    LET request == TenantSignupRequest_parse(body)
        errors == OnboardingService_validate_signup_request(tenants, request).errors
    IN /\ TenantSignupRequest_valid(body)
       /\ Cardinality(tenants) < MaxTenants
       /\ nextId["tenant"] <= MaxId
       /\ resp' = [op |-> "validate_signup", status |-> 200, tenant_id |-> NoId,
                   user_id |-> NoId, role_id |-> NoId, token |-> NoToken,
                   is_valid |-> errors = {}, errors |-> errors]
       /\ tenants' = tenants \cup
              {OnboardingService_create_tenant(
                   uuid4("tenant"), request.business_name,
                   OnboardingService_signup_slug(tenants, request),
                   request.owner_email)}
       /\ nextId' = [nextId EXCEPT !["tenant"] = @ + 1]
       /\ UNCHANGED <<users, roles, user_roles>>

\* POST /bff/web/onboarding/signup/validate: validate_signup and
\* OnboardingController.validate_signup; the response carries is_valid
\* (success) and the codes of the errors
validate_signup(body) ==
    LET request == TenantSignupRequest_parse(body)
        validation_result == OnboardingService_validate_signup_request(tenants, request)
    IN /\ resp' = IF ~TenantSignupRequest_valid(body)
                  THEN Reply("validate_signup", 422)
                  ELSE IF validation_result.raised
                  THEN Reply("validate_signup", 500)
                  ELSE [op |-> "validate_signup", status |-> 200,
                        tenant_id |-> NoId, user_id |-> NoId, role_id |-> NoId,
                        token |-> NoToken,
                        is_valid |-> validation_result.errors = {},
                        errors |-> validation_result.errors]
       /\ UNCHANGED <<store, nextId>>

\* OnboardingService._build_onboarding_steps over ONBOARDING_STEPS: the
\* e-mail step is completed when the owner's e-mail is verified, the last
\* step when the tenant is active, the others never
OnboardingService_build_onboarding_steps(tenant, owner) ==
    << [step_id |-> "email_verification", is_required |-> TRUE,
        is_completed |-> \E u \in owner : u.email_verified],
       [step_id |-> "profile_completion", is_required |-> FALSE,
        is_completed |-> FALSE],
       [step_id |-> "organization_settings", is_required |-> TRUE,
        is_completed |-> FALSE],
       [step_id |-> "invite_team", is_required |-> FALSE,
        is_completed |-> FALSE],
       [step_id |-> "setup_complete", is_required |-> TRUE,
        is_completed |-> tenant.status = "active"] >>

\* GET /bff/web/onboarding/status/{tenant_id}: get_onboarding_status and
\* OnboardingService.get_onboarding_status, on the tables ts and us;
\* completion_percentage is int((completed / required) * 100)
get_onboarding_status(op, ts, us, tenant_id) ==
    IF BaseRepository_get_by_id(ts, tenant_id) = {}
    THEN Response(op, 404, tenant_id, NoId, NoToken)
    ELSE IF Cardinality(UserRepository_get_tenant_owner(us, tenant_id)) > 1
    THEN Response(op, 500, tenant_id, NoId, NoToken)
    ELSE LET tenant == CHOOSE t \in ts : t.id = tenant_id
             steps == OnboardingService_build_onboarding_steps(
                          tenant, UserRepository_get_tenant_owner(us, tenant_id))
             required_steps == {i \in DOMAIN steps : steps[i].is_required}
             completed_required == {i \in required_steps : steps[i].is_completed}
         IN [op |-> op, status |-> 200, tenant_id |-> tenant_id, user_id |-> NoId,
             role_id |-> NoId, token |-> NoToken, steps |-> steps,
             completion_percentage |->
                 IF required_steps # {}
                 THEN (Cardinality(completed_required) * 100)
                          \div Cardinality(required_steps)
                 ELSE 100,
             is_complete |-> completed_required = required_steps]

\* complete_onboarding_step marking the tenant active whatever the step id
complete_onboarding_step_any(tenant_id, step_id) ==
    /\ tenants' = BaseRepository_update(tenants, tenant_id, [status |-> Set("active")])
    /\ resp' = get_onboarding_status("complete_onboarding_step",
                                     tenants', users, tenant_id)
    /\ UNCHANGED <<users, roles, user_roles, nextId>>

\* POST /bff/web/onboarding/status/{tenant_id}/steps/{step_id}/complete:
\* complete_onboarding_step and OnboardingService.complete_onboarding_step
\* when get_onboarding_status raises after the update, the request ends in an
\* error and its session is rolled back
complete_onboarding_step(tenant_id, step_id) ==
    IF step_id \notin {"email_verification", "profile_completion",
                       "organization_settings", "invite_team", "setup_complete"}
    THEN /\ resp' = Response("complete_onboarding_step", 400, tenant_id, NoId, NoToken)
         /\ UNCHANGED <<store, nextId>>
    ELSE LET updated == IF step_id = "setup_complete"
                        THEN BaseRepository_update(tenants, tenant_id,
                                                   [status |-> Set("active")])
                        ELSE tenants
         IN /\ resp' = get_onboarding_status("complete_onboarding_step",
                                             updated, users, tenant_id)
            /\ tenants' = IF resp'.status = 200 THEN updated ELSE tenants
            /\ UNCHANGED <<users, roles, user_roles, nextId>>

\* POST /bff/web/onboarding/status/{tenant_id}/complete: complete_onboarding
\* completes the step setup_complete and answers with the success envelope,
\* or with 404 when the tenant is not found
complete_onboarding(tenant_id) ==
    LET updated == BaseRepository_update(tenants, tenant_id, [status |-> Set("active")])
        status == get_onboarding_status("complete_onboarding", updated, users, tenant_id)
    IN /\ resp' = Response("complete_onboarding", status.status, tenant_id, NoId, NoToken)
       /\ tenants' = IF status.status = 200 THEN updated ELSE tenants
       /\ UNCHANGED <<users, roles, user_roles, nextId>>

-----------------------------------------------------------------------------
(* The state after deployment: empty tables; the roles table is either *)
(* empty or holds the three system roles put there by the operator.    *)

SystemRoles ==
    { [id |-> <<"role", 1>>, name |-> ROLE_TENANT_ADMIN, display_name |-> "Label",
       is_system_role |-> TRUE],
      [id |-> <<"role", 2>>, name |-> ROLE_TENANT_USER, display_name |-> "Label",
       is_system_role |-> TRUE],
      [id |-> <<"role", 3>>, name |-> ROLE_TENANT_VIEWER, display_name |-> "Label",
       is_system_role |-> TRUE] }

Init ==
    /\ tenants = {}
    /\ users = {}
    /\ roles \in {{}, SystemRoles}
    /\ user_roles = {}
    /\ nextId = [tenant |-> 1, user |-> 1, role |-> Cardinality(roles) + 1]
    /\ tokens = {}
    /\ inflight = {}
    /\ resp = Reply("none", 0)

-----------------------------------------------------------------------------
(* The tenant operations: POST, PATCH and DELETE /api/v1/tenants and signup *)

TenantCreateBodies ==
    [business_name : BusinessNames, slug : SlugInputs,
     contact_email : {NoneStr, <<"a">>}]

TenantUpdateBodies ==
    [business_name : {Absent(<<>>), Null(<<>>)} \cup {Set(n) : n \in BusinessNames},
     contact_email : {Absent(<<>>)},
     status : {Absent("active")},
     is_active : {Absent(TRUE), Null(TRUE)}]

SignupBodies ==
    [business_name : BusinessNames, business_slug : SlugInputs,
     owner_first_name : FirstNames, owner_last_name : LastNames,
     owner_email : {<<"A">>, <<"c">>}, username : {NoneStr}, password : Passwords]

CreateTenant ==
    /\ \E body \in TenantCreateBodies : create_tenant(body)
    /\ UNCHANGED <<tokens, inflight>>
UpdateTenant ==
    /\ \E id \in TenantIds, data \in TenantUpdateBodies : update_tenant(id, data)
    /\ UNCHANGED <<tokens, inflight>>
DeleteTenant ==
    /\ \E id \in TenantIds : delete_tenant(id)
    /\ UNCHANGED <<tokens, inflight>>
SignupTenant ==
    /\ \E body \in SignupBodies, auto_login \in BOOLEAN :
           signup_tenant(body, auto_login)
    /\ UNCHANGED <<tokens, inflight>>

SpecTenants ==
    Init /\ [][CreateTenant \/ UpdateTenant \/ DeleteTenant \/ SignupTenant]_vars

-----------------------------------------------------------------------------
(* The user operations of /api/v1/users, on a tenant made by signup *)

FirstSignupBodies ==
    [business_name : {<<"A", "c">>}, business_slug : {NoneStr},
     owner_first_name : FirstNames, owner_last_name : LastNames,
     owner_email : {<<"a">>}, username : {NoneStr}, password : Passwords]

UserCreateBodies ==
    [first_name : FirstNames, last_name : LastNames, email : Emails,
     username : UsernameInputs, password : Passwords]

UserUpdateBodies ==
    [first_name : {Absent(<<>>), Null(<<>>)},
     last_name : {Absent(<<>>)},
     email : {Absent(<<>>), Null(<<>>)} \cup {Set(e) : e \in Emails},
     status : {Absent("active")},
     is_active : {Absent(TRUE), Null(TRUE), Set(FALSE)}]

SignupFirst ==
    /\ \E body \in FirstSignupBodies : signup_tenant(body, FALSE)
    /\ UNCHANGED <<tokens, inflight>>
CreateUser ==
    /\ \E body \in UserCreateBodies, tenant_id \in TenantIds :
           create_user(body, tenant_id)
    /\ UNCHANGED <<tokens, inflight>>
UpdateUser ==
    /\ \E id \in UserIds, data \in UserUpdateBodies : update_user(id, data)
    /\ UNCHANGED <<tokens, inflight>>
DeleteUser ==
    /\ \E id \in UserIds : delete_user(id)
    /\ UNCHANGED <<tokens, inflight>>
VerifyEmail ==
    /\ \E id \in UserIds : verify_email(id)
    /\ UNCHANGED <<tokens, inflight>>
DeactivateUser ==
    /\ \E id \in UserIds : deactivate_user(id)
    /\ UNCHANGED <<tokens, inflight>>

SpecUsers ==
    Init /\ [][\/ SignupFirst
               \/ CreateUser \/ UpdateUser \/ DeleteUser \/ VerifyEmail \/ DeactivateUser]_vars

-----------------------------------------------------------------------------
(* Signup and user creation alone, on one tenant or two *)

\* signups that differ in the owner only
OwnerSignupBodies ==
    [business_name : {<<"A", "c">>, <<"a", " ", "c">>}, business_slug : {NoneStr},
     owner_first_name : FirstNames, owner_last_name : LastNames,
     owner_email : Emails, username : UsernameInputs, password : Passwords]

SignupOwner ==
    /\ \E body \in OwnerSignupBodies : signup_tenant(body, FALSE)
    /\ UNCHANGED <<tokens, inflight>>

\* usernames checked as the form is typed, under each tenant and under none
SpecUsernames ==
    Init /\ [][\/ SignupOwner \/ CreateUser
               \/ \E username \in {<<"a", "c">>, <<"A", "C">>, <<"a", "c", "1">>, <<"1", "a", "c">>,
                                    <<"a">>},
                     tenant_id \in TenantIds \cup {NoId} :
                     /\ resp' = OnboardingService_validate_username(users, username, tenant_id)
                                    @@ [username |-> username]
                     /\ UNCHANGED <<store, nextId, tokens, inflight>>]_vars

-----------------------------------------------------------------------------
(* The role operations of /api/v1/roles, on one tenant's owner and member *)

MemberCreateBodies ==
    [first_name : FirstNames, last_name : LastNames, email : {<<"c">>},
     username : {NoneStr}, password : Passwords]

RoleUpdateBodies ==
    [display_name : {Absent(""), Null(""), Set("Renamed")}]

CreateMember ==
    /\ \E body \in MemberCreateBodies, tenant_id \in TenantIds :
           create_user(body, tenant_id)
    /\ UNCHANGED <<tokens, inflight>>
CreateRole ==
    /\ \E name \in RoleNames, display_name \in DisplayNames :
           create_role(name, display_name)
    /\ UNCHANGED <<tokens, inflight>>
UpdateRole ==
    /\ \E id \in RoleIds, data \in RoleUpdateBodies : update_role(id, data)
    /\ UNCHANGED <<tokens, inflight>>
DeleteRole ==
    /\ \E id \in RoleIds : delete_role(id)
    /\ UNCHANGED <<tokens, inflight>>
AssignRole ==
    /\ \E user_id \in UserIds, role_id \in RoleIds, is_primary \in BOOLEAN :
           assign_role(user_id, role_id, is_primary)
    /\ UNCHANGED <<tokens, inflight>>
RemoveRole ==
    /\ \E user_id \in UserIds, role_id \in RoleIds : remove_role(user_id, role_id)
    /\ UNCHANGED <<tokens, inflight>>
BulkAssignRole ==
    /\ \E role_id \in RoleIds, user_ids \in [1..2 -> UserIds] :
           bulk_assign_role(user_ids, role_id)
    /\ UNCHANGED <<tokens, inflight>>
SetPrimaryRole ==
    /\ \E user_id \in UserIds, role_id \in RoleIds :
           set_primary_role(user_id, role_id)
    /\ UNCHANGED <<tokens, inflight>>

SpecRoles ==
    Init /\ [][\/ SignupFirst \/ CreateMember
               \/ CreateRole \/ DeleteRole
               \/ AssignRole \/ RemoveRole \/ BulkAssignRole \/ SetPrimaryRole]_vars

-----------------------------------------------------------------------------
(* BaseRepository.update called on the users table, as UserRepository *)

UpdateMaps ==
    [first_name : {Absent(<<>>), Null(<<>>), Set(<<"B">>)},
     email : {Absent(<<>>), Null(<<>>)},
     is_active : {Absent(TRUE), Null(TRUE), Set(FALSE)}]

\* UserRepository(session).update(id, obj_data); the response records the
\* arguments and the returned row
repository_update(id, obj_data) ==
    /\ users' = BaseRepository_update(users, id, obj_data)
    /\ resp' = [op |-> "BaseRepository.update", status |-> 0,
                tenant_id |-> NoId, user_id |-> id, role_id |-> NoId,
                token |-> NoToken, obj_data |-> obj_data,
                returned |-> BaseRepository_update_result(users, id, obj_data)]
    /\ UNCHANGED <<tenants, roles, user_roles, nextId>>

RepositoryUpdate ==
    /\ \E id \in UserIds, obj_data \in UpdateMaps :
           repository_update(id, obj_data)
    /\ UNCHANGED <<tokens, inflight>>

SpecRepository ==
    Init /\ [][SignupFirst \/ CreateMember \/ RepositoryUpdate]_vars

-----------------------------------------------------------------------------
(* The administration of roles: roles created, renamed and deleted, with *)
(* an owner to assign them to                                           *)

SpecRoleAdmin ==
    Init /\ [][SignupFirst \/ CreateRole \/ UpdateRole \/ DeleteRole \/ AssignRole]_vars

-----------------------------------------------------------------------------
(* Logging in: owners and members of one tenant or two, members *)
(* deactivated, and the two login endpoints                     *)

\* identifiers and passwords tried at login, under each tenant, under a
\* tenant id that names no tenant, and without a tenant id
LoginRequests ==
    [username_or_email : {<<"A">>, <<"a", "c">>, <<"A", "C", "1">>,
                          <<"1", "a", "c">>},
     password : Passwords \cup {"wrong"},
     tenant_id : TenantIds \cup {NoId}]

\* signups of two businesses, the owner named by the service or "Ac1"
LoginSignupBodies ==
    [business_name : {<<"A", "c">>, <<"a", " ", "c">>}, business_slug : {NoneStr},
     owner_first_name : FirstNames, owner_last_name : LastNames,
     owner_email : {<<"a">>, <<"c">>}, username : {NoneStr, <<"A", "c", "1">>},
     password : Passwords]

\* both endpoints read the tables and write nothing; resp keeps the request
\* next to the response.  A route that depends on get_current_user_id is
\* called with an Authorization header: none, an empty one, other schemes,
\* and Bearer tokens signed by the server, expired, forged or not tokens
SpecAuth ==
    Init /\ [][\/ /\ \E body \in LoginSignupBodies : signup_tenant(body, FALSE)
                  /\ UNCHANGED <<tokens, inflight>>
               \/ CreateMember \/ DeactivateUser
               \/ \E request \in LoginRequests :
                     /\ resp' = login_for_access_token(request) @@ [request |-> request]
                     /\ UNCHANGED <<store, nextId, tokens, inflight>>
               \/ \E request \in LoginRequests :
                     /\ resp' = login(request) @@ [request |-> request]
                     /\ UNCHANGED <<store, nextId, tokens, inflight>>
               \/ \E authorization \in
                         {NoneStr, <<"">>, <<"Bearer">>, <<"Basic", "signed(sub=user-1)">>,
                          <<"bearer", "signed(sub=user-1)">>, <<"Bearer", "", "signed(sub=user-1)">>}
                         \cup {<<"Bearer", token>> :
                                  token \in {"signed(sub=user-1)", "signed(sub=user-2)",
                                             "signed(sub=admin)", "signed(sub=)", "signed(exp)",
                                             "signed()", "expired(sub=user-1)",
                                             "forged(sub=user-1)", "garbage"}} :
                     /\ resp' = get_current_user_id(authorization)
                                    @@ [authorization |-> authorization]
                     /\ UNCHANGED <<store, nextId, tokens, inflight>>]_vars

-----------------------------------------------------------------------------
(* Signup and its pre-flight validation, next to tenants created through *)
(* /api/v1/tenants                                                       *)

\* signup requests sent to both endpoints: names that differ in case or in
\* a space, with and without a slug
PreflightBodies ==
    [business_name : {<<"A", "c">>, <<"a", "c">>, <<"a", " ", "c">>},
     business_slug : {NoneStr, <<"A", "-", "c">>},
     owner_first_name : FirstNames, owner_last_name : LastNames,
     owner_email : {<<"A">>, <<"c">>}, username : {NoneStr}, password : Passwords]

SpecSignup ==
    Init /\ [][\/ CreateTenant
               \/ /\ \E body \in PreflightBodies : signup_tenant(body, FALSE)
                  /\ UNCHANGED <<tokens, inflight>>
               \/ /\ \E body \in PreflightBodies : validate_signup(body)
                  /\ UNCHANGED <<tokens, inflight>>]_vars

-----------------------------------------------------------------------------
(* Onboarding progress: signups, the owner's e-mail verified, steps *)
(* completed and the status read                                   *)

SpecOnboarding ==
    Init /\ [][\/ SignupOwner \/ VerifyEmail
               \/ /\ \E tenant_id \in TenantIds,
                        step_id \in {"email_verification", "organization_settings",
                                     "setup_complete", "payment"} :
                        complete_onboarding_step(tenant_id, step_id)
                  /\ UNCHANGED <<tokens, inflight>>
               \/ /\ \E tenant_id \in TenantIds : complete_onboarding(tenant_id)
                  /\ UNCHANGED <<tokens, inflight>>
               \/ \E tenant_id \in TenantIds :
                     /\ resp' = get_onboarding_status("get_onboarding_status",
                                                      tenants, users, tenant_id)
                     /\ UNCHANGED <<store, nextId, tokens, inflight>>]_vars

-----------------------------------------------------------------------------
(* Listing users: an owner and a member of one tenant, the member with the *)
(* owner's names or with another last name, members deactivated, and the  *)
(* list read page by page                                                  *)

SpecListing ==
    Init /\ [][\/ SignupFirst \/ DeactivateUser
               \/ /\ \E body \in [first_name : FirstNames, last_name : LastNames \cup {<<"a">>},
                                   email : {<<"c">>}, username : {NoneStr}, password : Passwords],
                        tenant_id \in TenantIds :
                        create_user(body, tenant_id)
                  /\ UNCHANGED <<tokens, inflight>>
               \/ \E tenant_id \in TenantIds \cup {NoId}, skip \in 0..1, limit \in 1..2,
                     include_inactive \in BOOLEAN :
                     \E response \in list_users(users, tenant_id, skip, limit, include_inactive) :
                         /\ resp' = response @@ [request |-> [skip |-> skip, limit |-> limit,
                                                              include_inactive |-> include_inactive]]
                         /\ UNCHANGED <<store, nextId, tokens, inflight>>]_vars

-----------------------------------------------------------------------------
(* Changing the password: members of a tenant made through /api/v1/tenants *)
(* created, deleted and created again, logging in, and the password        *)
(* changed with a token.  A client keeps the token of each login; a token  *)
(* lasts 24 hours and the server keeps no list of them.                    *)

SpecPassword ==
    Init /\ [][\/ CreateTenant \/ CreateMember \/ DeleteUser
               \/ \E request \in [username_or_email : {<<"a", "c">>, <<"a", "c", "1">>},
                                   password : Passwords \cup {"N3wPassw0rd"},
                                   tenant_id : TenantIds] :
                     /\ resp' = login_for_access_token(request) @@ [request |-> request]
                     /\ tokens' = IF resp'.status = 200 THEN tokens \cup {resp'.token}
                                  ELSE tokens
                     /\ UNCHANGED <<store, nextId, inflight>>
               \/ /\ \E token \in tokens \cup {NoToken},
                        request \in [current_password :
                                         Passwords \cup {"wrong", "N3wPassw0rd"},
                                     new_password : {"N3wPassw0rd", "short"}] :
                        change_password(token, request)
                  /\ UNCHANGED <<tokens, inflight>>]_vars

-----------------------------------------------------------------------------
(* Signups that run at the same time: each of two clients has at most one  *)
(* signup under way, which reads the tables in one step and inserts in a   *)
(* later one.                                                              *)

SpecSlugRace ==
    Init /\ [][\/ /\ \E client \in {1, 2}, body \in PreflightBodies :
                        signup_tenant_probe(client, body)
                  /\ UNCHANGED tokens
               \/ /\ \E r \in {q \in inflight : q.op = "signup_tenant"} :
                        signup_tenant_insert(r)
                  /\ UNCHANGED tokens]_vars

-----------------------------------------------------------------------------
(* Role removals that run at the same time: an owner with roles assigned,  *)
(* and each of two clients with at most one removal under way, which       *)
(* counts the roles of the user in one step and deletes in a later one.    *)

SpecRoleRace ==
    Init /\ [][\/ SignupFirst \/ AssignRole
               \/ /\ \E client \in {1, 2}, user_id \in UserIds, role_id \in RoleIds :
                        remove_role_count(client, user_id, role_id)
                  /\ UNCHANGED tokens
               \/ /\ \E r \in {q \in inflight : q.op = "remove_role"} :
                        remove_role_delete(r)
                  /\ UNCHANGED tokens]_vars

-----------------------------------------------------------------------------
(* Owners and members: signups that each make a tenant with its owner, and *)
(* users created, updated and deleted through /api/v1/users.               *)

SpecOwners ==
    Init /\ [][SignupOwner \/ CreateMember \/ UpdateUser \/ DeleteUser]_vars

-----------------------------------------------------------------------------
(* Business names with characters that are neither letters nor digits:     *)
(* "Ac", "a&" (one letter and a sign), "--" and "&!" (signs only), sent to *)
(* /api/v1/tenants and to signup, with and without a slug.                 *)

SpecSlugFormat ==
    Init /\ [][\/ /\ \E body \in [business_name : {<<"A", "c">>, <<"a", "&">>,
                                                   <<"-", "-">>, <<"&", "!">>},
                                  slug : {NoneStr, <<"A", "-", "c">>},
                                  contact_email : {NoneStr}] :
                        create_tenant(body)
                  /\ UNCHANGED <<tokens, inflight>>
               \/ /\ \E body \in [business_name : {<<"A", "c">>, <<"a", "&">>,
                                                   <<"-", "-">>, <<"&", "!">>},
                                  business_slug : {NoneStr, <<"A", "-", "c">>},
                                  owner_first_name : FirstNames,
                                  owner_last_name : LastNames,
                                  owner_email : {<<"A">>, <<"c">>},
                                  username : {NoneStr},
                                  password : Passwords] :
                        signup_tenant(body, FALSE)
                  /\ UNCHANGED <<tokens, inflight>>
               \/ DeleteTenant]_vars

-----------------------------------------------------------------------------
(* Tenants looked up by id or slug: tenants created with no slug, with the *)
(* slug "a-c" and with a slug of 32 letters a, deleted, and looked up by   *)
(* the slugs in the table, by the text of the first tenant's id and by a   *)
(* slug that no tenant has.                                                *)

SpecLookup ==
    Init /\ [][\/ /\ \E body \in [business_name : {<<"A", "c">>, <<"a", " ", "c">>},
                                  slug : {NoneStr, <<"A", "-", "c">>,
                                          [i \in 1..32 |-> "a"]},
                                  contact_email : {NoneStr}] :
                        create_tenant(body)
                  /\ UNCHANGED <<tokens, inflight>>
               \/ DeleteTenant
               \/ \E identifier \in {t.slug : t \in tenants}
                                    \cup {[i \in 1..32 |-> IF i < 32 THEN "0" ELSE "1"],
                                          <<"c", "c">>} :
                     LET tenant == TenantService_get_by_id_or_slug(tenants, identifier)
                     IN /\ resp' = (IF tenant = {}
                                    THEN Reply("get_by_id_or_slug", 404)
                                    ELSE Response("get_by_id_or_slug", 200,
                                                  (CHOOSE t \in tenant : TRUE).id,
                                                  NoId, NoToken))
                                       @@ [identifier |-> identifier]
                        /\ UNCHANGED <<store, nextId, tokens, inflight>>]_vars

-----------------------------------------------------------------------------
(* The unique indexes of the tables: no operation, run one after the other, *)
(* inserts or updates a row that one of them would refuse.                  *)

\* ix_tenants_slug
ix_tenants_slug ==
    \A t1 \in tenants, t2 \in tenants : t1.slug = t2.slug => t1 = t2

\* ix_users_tenant_username
ix_users_tenant_username ==
    \A u1 \in users, u2 \in users :
        (u1.tenant_id = u2.tenant_id /\ u1.username = u2.username) => u1 = u2

\* ix_users_tenant_email
ix_users_tenant_email ==
    \A u1 \in users, u2 \in users :
        (u1.tenant_id = u2.tenant_id /\ u1.email = u2.email) => u1 = u2

\* ix_roles_name
ix_roles_name ==
    \A r1 \in roles, r2 \in roles : r1.name = r2.name => r1 = r2

\* ix_user_roles_user_role
ix_user_roles_user_role ==
    \A ur1 \in user_roles, ur2 \in user_roles :
        (ur1.user_id = ur2.user_id /\ ur1.role_id = ur2.role_id) => ur1 = ur2

-----------------------------------------------------------------------------
(* Every operation *)

Next ==
    \/ CreateTenant \/ UpdateTenant \/ DeleteTenant \/ SignupTenant
    \/ CreateUser \/ UpdateUser \/ DeleteUser \/ VerifyEmail \/ DeactivateUser
    \/ CreateRole \/ UpdateRole \/ DeleteRole
    \/ AssignRole \/ RemoveRole \/ BulkAssignRole \/ SetPrimaryRole

Spec == Init /\ [][Next]_vars

-----------------------------------------------------------------------------
(* Properties of the tenant operations (SpecTenants) *)

\* C1: slug uniqueness. In every state reached by tenant creations, tenant
\* updates and signups, no two distinct tenants have slugs that are equal
\* ignoring case.
C1_SlugUnique ==
    \A t1 \in tenants, t2 \in tenants :
        t1 # t2 => str_lower(t1.slug) # str_lower(t2.slug)

\* two tenants asked for the same slug, and the later one got the numbered
\* variant
C1_Witness ==
    \E t1 \in tenants, t2 \in tenants :
        /\ t1.slug = <<"a", "-", "c">>
        /\ t2.slug = <<"a", "-", "c", "-", "1">>

\* C6: business-name uniqueness. No two distinct tenants have business names
\* that are equal ignoring case, and a tenant creation or a signup whose
\* business name equals, ignoring case, the name of an existing tenant is
\* rejected and adds no tenant row.
C6_BusinessNameUnique ==
    /\ [](\A t1 \in tenants, t2 \in tenants :
            t1 # t2 => str_lower(t1.business_name) # str_lower(t2.business_name))
    /\ [][/\ (resp'.op = "create_tenant" /\ ~(resp'.status >= 400 /\ tenants' = tenants))
             => \A body \in TenantCreateBodies :
                   (\E t \in tenants :
                       str_lower(t.business_name) = str_lower(body.business_name))
                   => ~create_tenant(body)
          /\ (resp'.op = "signup_tenant" /\ ~(resp'.status >= 400 /\ tenants' = tenants))
             => \A body \in SignupBodies, auto_login \in BOOLEAN :
                   (\E t \in tenants :
                       str_lower(t.business_name) =
                           str_lower(TenantSignupRequest_parse(body).business_name))
                   => ~signup_tenant(body, auto_login)]_vars

\* a creation was answered 409 while a tenant of that name, in another
\* case, is in the table
C6_Witness ==
    /\ resp.op = "create_tenant"
    /\ resp.status = 409
    /\ \E t \in tenants : t.business_name = <<"A", "c">>
    /\ \A t \in tenants : t.business_name # <<"a", "c">>

\* C7: signup postcondition. A signup that passes validation adds exactly one
\* tenant, with status pending_setup, is_active true and as contact e-mail
\* the owner's e-mail (the e-mail of the request in lowercase), and exactly
\* one user, of that tenant, with is_tenant_owner true, email_verified false
\* and status pending; with auto_login the response carries a token whose sub
\* and tenant_id are the ids of that user and that tenant.
C7_SignupPostcondition ==
    [][(resp'.op = "signup_tenant" /\ resp'.status = 201) =>
          \A body \in SignupBodies, auto_login \in BOOLEAN :
              signup_tenant(body, auto_login) =>
                  \E t \in tenants' \ tenants, u \in users' \ users :
                      /\ tenants' = tenants \cup {t}
                      /\ users' = users \cup {u}
                      /\ t.status = "pending_setup"
                      /\ t.is_active
                      /\ t.contact_email = str_lower(body.owner_email)
                      /\ t.contact_email = u.email
                      /\ u.tenant_id = t.id
                      /\ u.is_tenant_owner
                      /\ ~u.email_verified
                      /\ u.status = "pending"
                      /\ auto_login =>
                            resp'.token = [sub |-> u.id, tenant_id |-> t.id]]_vars

\* a signup with auto_login was answered 201 with a token for the owner it
\* created
C7_Witness ==
    /\ resp.op = "signup_tenant"
    /\ resp.status = 201
    /\ resp.token # NoToken
    /\ \E t \in tenants, u \in users :
          /\ t.id = resp.tenant_id
          /\ u.id = resp.user_id
          /\ u.tenant_id = t.id
          /\ resp.token.sub = u.id

-----------------------------------------------------------------------------
(* Properties of the user operations (SpecUsernames, SpecUsers) *)

\* C2: username uniqueness. In every state reached by user creations, with
\* a supplied or a generated username, and signups, no two distinct users of
\* one tenant have usernames that are equal ignoring case (users of different
\* tenants may share one: C2_Witness).
C2_UsernameUnique ==
    \A u1 \in users, u2 \in users :
        (u1 # u2 /\ u1.tenant_id = u2.tenant_id)
            => str_lower(u1.username) # str_lower(u2.username)

\* two users of different tenants share a username
C2_Witness ==
    \E u1 \in users, u2 \in users :
        /\ u1.tenant_id # u2.tenant_id
        /\ u1.username = u2.username

\* C5: tenant-owner protection. DELETE /users/{id} and POST
\* /users/{id}/deactivate on a user with is_tenant_owner true are answered
\* 400 and leave every user row as it was.
C5_OwnerProtected ==
    [][(resp'.op \in {"delete_user", "deactivate_user"}) =>
          \A id \in UserIds :
              (/\ delete_user(id) \/ deactivate_user(id)
               /\ \E u \in users : u.id = id /\ u.is_tenant_owner)
              => (resp'.status = 400 /\ users' = users)]_vars

\* the deletion of a tenant owner was answered 400 and the owner is there
C5_Witness ==
    /\ resp.op = "delete_user"
    /\ resp.status = 400
    /\ \E u \in users : u.id = resp.user_id /\ u.is_tenant_owner

\* C8: owner invariant. No sequence of user creations, PATCH updates, e-mail
\* verifications, deactivations and deletions reaches a state where a user
\* marked is_tenant_owner has is_active false, and none of them deletes a
\* user marked is_tenant_owner.
C8_OwnerInvariant ==
    /\ [](\A u \in users : u.is_tenant_owner => u.is_active)
    /\ [][\A u \in users :
            (u.is_tenant_owner /\ \A w \in users' : w.id # u.id)
                => resp'.op \notin {"create_user", "update_user", "verify_email",
                                    "deactivate_user", "delete_user"}]_vars

-----------------------------------------------------------------------------
(* Properties of the role operations (SpecRoles) *)

\* C3: primary-role exclusivity. After any sequence of role assignments, with
\* or without is_primary, bulk assignments, set-primary-role and remove-role
\* requests, every user has at most one role assignment with is_primary
\* true; an assignment with is_primary makes the assigned role the primary
\* one and leaves every other assignment of the user with is_primary false.
C3_PrimaryExclusive ==
    /\ [](\A ur1 \in user_roles, ur2 \in user_roles :
            (ur1.user_id = ur2.user_id /\ ur1.is_primary /\ ur2.is_primary)
                => ur1 = ur2)
    /\ [][(resp'.op = "assign_role" /\ resp'.status = 201) =>
             \A user_id \in UserIds, role_id \in RoleIds :
                 assign_role(user_id, role_id, TRUE) =>
                     \A ur \in user_roles' :
                         ur.user_id = user_id =>
                             (ur.is_primary <=> ur.role_id = role_id)]_vars

\* a user holds two roles, the one assigned last is the primary one and the
\* other is not
C3_Witness ==
    /\ resp.op = "assign_role"
    /\ resp.status = 201
    /\ \E ur1 \in user_roles, ur2 \in user_roles :
          /\ ur1.user_id = resp.user_id /\ ur2.user_id = resp.user_id
          /\ ur1.role_id = resp.role_id /\ ur1.is_primary
          /\ ur2.role_id # resp.role_id /\ ~ur2.is_primary

\* C4: minimum-role rule. A remove-role request that names a role, for a
\* user who holds exactly one role assignment, is answered 400 and leaves
\* the role assignments as they were.
C4_MinimumRole ==
    [][(resp'.op = "remove_role") =>
          \A user_id \in UserIds, role_id \in RoleIds :
              (/\ remove_role(user_id, role_id)
               /\ BaseRepository_get_by_id(users, user_id) # {}
               /\ BaseRepository_get_by_id(roles, role_id) # {}
               /\ Cardinality(RoleRepository_get_user_roles(user_roles, user_id)) = 1)
              => (resp'.status = 400 /\ user_roles' = user_roles)]_vars

\* the removal of the only role a user holds was answered 400
C4_Witness ==
    /\ resp.op = "remove_role"
    /\ resp.status = 400
    /\ Cardinality(RoleRepository_get_user_roles(user_roles, resp.user_id)) = 1
    /\ \E ur \in user_roles : ur.user_id = resp.user_id /\ ur.role_id = resp.role_id

\* C9: every active user keeps a role. In every state reached by signups,
\* user creations, role assignments, bulk assignments, role removals and
\* role deletions, every user with is_active true has at least one role
\* assignment.
C9_ActiveUserHasRole ==
    \A u \in users : u.is_active => \E ur \in user_roles : ur.user_id = u.id

\* C11: role-assignment uniqueness. After any sequence of assign-role and
\* bulk-assign requests no user holds two assignments of one role; an
\* assign-role request for a role the user holds is answered 409 and adds
\* nothing; a bulk request, also one that lists a user more than once, adds
\* at most one assignment per user and none for a user who held the role.
C11_AssignmentUnique ==
    /\ [](\A ur1 \in user_roles, ur2 \in user_roles :
            (ur1.user_id = ur2.user_id /\ ur1.role_id = ur2.role_id) => ur1 = ur2)
    /\ [][(resp'.op = "assign_role") =>
             \A user_id \in UserIds, role_id \in RoleIds, is_primary \in BOOLEAN :
                 (/\ assign_role(user_id, role_id, is_primary)
                  /\ \E ur \in user_roles :
                         ur.user_id = user_id /\ ur.role_id = role_id)
                 => (resp'.status = 409 /\ user_roles' = user_roles)]_vars
    /\ [][(resp'.op = "bulk_assign_role" /\ resp'.status = 200) =>
             /\ \A i, j \in 1..Len(resp'.successful) :
                    resp'.successful[i] = resp'.successful[j] => i = j
             /\ \A i \in 1..Len(resp'.successful) :
                    ~\E ur \in user_roles :
                        /\ ur.user_id = resp'.successful[i]
                        /\ ur.role_id = resp'.role_id
             /\ Cardinality(user_roles') =
                    Cardinality(user_roles) + Len(resp'.successful)]_vars

\* a bulk request listed one user twice: the first entry was assigned and the
\* second refused, and the user holds the role once
C11_Witness ==
    /\ resp.op = "bulk_assign_role"
    /\ resp.status = 200
    /\ resp.total_processed = 2
    /\ Len(resp.successful) = 1
    /\ resp.failed = resp.successful
    /\ Cardinality({ur \in user_roles : /\ ur.user_id = resp.successful[1]
                                        /\ ur.role_id = resp.role_id}) = 1

-----------------------------------------------------------------------------
(* Properties of role administration (SpecRoleAdmin) *)

\* C12: system-role protection. No create-role, update-role or delete-role
\* request removes a role with is_system_role true or changes its name;
\* delete-role answers 404 for a role that does not exist, else 403 for a
\* system role, else 400 for a role with assignments, each time leaving the
\* store as it was, and otherwise removes the role and nothing else.
C12_SystemRolesKept ==
    /\ [][\A r \in roles :
             r.is_system_role =>
                 \E r2 \in roles' : /\ r2.id = r.id /\ r2.name = r.name
                                    /\ r2.is_system_role]_vars
    /\ [][(resp'.op = "delete_role") =>
             \A role_id \in RoleIds :
                 delete_role(role_id) =>
                     LET found == {r \in roles : r.id = role_id}
                         held == \E ur \in user_roles : ur.role_id = role_id
                     IN /\ (found = {})
                            => (resp'.status = 404 /\ store' = store)
                        /\ (\E r \in found : r.is_system_role)
                            => (resp'.status = 403 /\ store' = store)
                        /\ (\E r \in found : ~r.is_system_role /\ held)
                            => (resp'.status = 400 /\ store' = store)
                        /\ (\E r \in found : ~r.is_system_role /\ ~held)
                            => /\ resp'.status = 200
                               /\ roles' = roles \ found
                               /\ <<tenants, users, user_roles>>' =
                                      <<tenants, users, user_roles>>]_vars

\* the deletion of a system role that is assigned to a user and has been
\* renamed was answered 403, and the role is there under its name
C12_Witness ==
    /\ resp.op = "delete_role"
    /\ resp.status = 403
    /\ \E r \in roles : /\ r.id = resp.role_id
                        /\ r.is_system_role
                        /\ r.name = ROLE_TENANT_ADMIN
                        /\ r.display_name = "Renamed"
                        /\ \E ur \in user_roles : ur.role_id = r.id

-----------------------------------------------------------------------------
(* Properties of BaseRepository.update (SpecRepository) *)

-----------------------------------------------------------------------------
(* Properties of authentication (SpecAuth) *)

\* C13: login failure indistinguishability. Under one tenant, a request
\* that names no user of the tenant, one that names a user and carries a
\* wrong password, and one that names an inactive user all get one and the
\* same response from POST /token: status 401, the one detail text, no user
\* and no token; and each that passes the LoginRequest schema gets one and
\* the same such response from POST /login.
C13_LoginIndistinguishable ==
    LET named(r) == {u \in users :
                        /\ u.tenant_id = r.tenant_id
                        /\ \/ str_lower(u.email) = str_lower(r.username_or_email)
                           \/ str_lower(u.username) = str_lower(r.username_or_email)}
        fails(r) == \/ named(r) = {}
                    \/ \E u \in named(r) :
                           \/ ~verify_password(r.password, u.password_hash)
                           \/ ~u.is_active
        parses(r) == Len(r.username_or_email) >= 3 /\ Len(r.password) >= 1
        unauthorized(op, www_authenticate) ==
            [op |-> op, status |-> 401,
             detail |-> "Incorrect username/email or password",
             www_authenticate |-> www_authenticate, tenant_id |-> NoId,
             user_id |-> NoId, role_id |-> NoId, token |-> NoToken]
    IN \A r \in LoginRequests :
           (r.tenant_id # NoId /\ fails(r))
           => /\ login_for_access_token(r) = unauthorized("token", TRUE)
              /\ parses(r) => login(r) = unauthorized("login", FALSE)

\* POST /login answered 401 to the right password of a deactivated user,
\* while the tenant has an active user and the identifier "1ac" names nobody
C13_Witness ==
    /\ resp.op = "login"
    /\ resp.status = 401
    /\ \E u \in users :
          /\ u.tenant_id = resp.request.tenant_id
          /\ str_lower(u.username) = str_lower(resp.request.username_or_email)
          /\ verify_password(resp.request.password, u.password_hash)
          /\ ~u.is_active
    /\ \E u \in users : u.tenant_id = resp.request.tenant_id /\ u.is_active
    /\ \A u \in users : u.username # <<"1", "a", "c">>

\* C14: tenant-scoped authentication. authenticate(identifier, password,
\* tenant) returns the user U exactly if U belongs to the tenant, the
\* identifier equals U's e-mail or username ignoring case, U is active and
\* the password verifies; otherwise it returns no user, and it never raises.
C14_AuthenticateScoped ==
    \A r \in LoginRequests :
        LET auth == UserService_authenticate(users, r.username_or_email,
                                             r.password, r.tenant_id)
        IN /\ ~auth.raised
           /\ auth.user =
                 {u \in users :
                     /\ u.tenant_id = r.tenant_id
                     /\ \/ str_lower(u.email) = str_lower(r.username_or_email)
                        \/ str_lower(u.username) = str_lower(r.username_or_email)
                     /\ u.is_active
                     /\ verify_password(r.password, u.password_hash)}
           /\ Cardinality(auth.user) <= 1

\* POST /token under one tenant answered 401 to the username and password
\* with which an active user of another tenant logs in
C14_Witness ==
    /\ resp.op = "token"
    /\ resp.status = 401
    /\ \E t \in tenants : t.id = resp.request.tenant_id
    /\ \E u \in users :
          /\ u.tenant_id # resp.request.tenant_id
          /\ u.username = str_lower(resp.request.username_or_email)
          /\ u.is_active
          /\ verify_password(resp.request.password, u.password_hash)

\* C19: get_current_user_id yields no user id only when the Authorization
\* header is absent (a header with an empty value counted as absent); every
\* other header either yields the user id of its token or fails with
\* Unauthorized: a header that does not begin with "Bearer ", a token that
\* does not decode, and a decoded token without a subject or with a subject
\* that is not a UUID all get 401.
C19_NoUserOnlyWithoutHeader ==
    (resp.op = "get_current_user_id" /\ resp.status = 200 /\ resp.user_id = NoId)
    => resp.authorization \in {NoneStr, <<"">>}

-----------------------------------------------------------------------------
(* Properties of signup and its pre-flight validation (SpecSignup) *)

C16_ValidateReadOnly ==
    [][(resp'.op = "validate_signup") => store' = store]_vars

\* validation has reported errors for a request while tenants exist
C16_Witness ==
    /\ resp.op = "validate_signup"
    /\ resp.status = 200
    /\ ~resp.is_valid
    /\ "DUPLICATE_BUSINESS_NAME" \in resp.errors
    /\ tenants # {}

-----------------------------------------------------------------------------
(* Properties of onboarding progress (SpecOnboarding) *)

\* C17: onboarding completion percentage. Every onboarding status reports
\* completion_percentage = round(100 * c / r), r being the number of
\* required steps and c the number of them that are completed (100 when
\* r = 0).
C17_CompletionRounded ==
    (resp.op \in {"get_onboarding_status", "complete_onboarding_step"}
     /\ resp.status = 200)
    => LET r == Cardinality({i \in DOMAIN resp.steps : resp.steps[i].is_required})
           c == Cardinality({i \in DOMAIN resp.steps :
                                /\ resp.steps[i].is_required
                                /\ resp.steps[i].is_completed})
       IN resp.completion_percentage =
              IF r = 0 THEN 100 ELSE (200 * c + r) \div (2 * r)

C23_CompleteAllCompletes ==
    (resp.op = "complete_onboarding" /\ resp.status = 200)
    => /\ \E t \in tenants : t.id = resp.tenant_id /\ t.status = "active"
       /\ get_onboarding_status("get_onboarding_status", tenants, users,
                                resp.tenant_id).is_complete

-----------------------------------------------------------------------------
(* Properties of the user listing (SpecListing) *)

\* C18: two listings of the same tenant with the same skip, limit and
\* include_inactive, the second straight after the first with no write in
\* between, return the same users in the same order, also when users of the
\* tenant share their last and first name.
C18_ListingDeterministic ==
    [][(/\ resp.op = "list_users" /\ resp'.op = "list_users"
        /\ resp.status = 200 /\ resp'.status = 200
        /\ resp'.tenant_id = resp.tenant_id
        /\ resp'.request = resp.request
        /\ store' = store)
       => resp'.users = resp.users]_vars

-----------------------------------------------------------------------------
(* Properties of slug generation (SpecTenants) *)

\* C20: generate_unique_slug(base) returns the normalized base when no tenant
\* holds it, and otherwise the normalized base followed by "-k" for the
\* smallest k >= 1 such that no tenant holds that slug; no tenant holds the
\* slug returned; and the probing loop ends, after at most one probe more
\* than there are tenants.
C20_NextFreeSlug ==
    \A base_slug \in {<<"A", " ", "c">>, <<"a", "-", "c">>, <<"-", "A", "c", "-">>,
                       <<"a", "-", "c", "-", "1">>, <<"a">>} :
        LET slug == strip(sub_non_alnum_runs(str_lower(base_slug)), "-")
            held(s) == \E t \in tenants : t.slug = s
            numbered(k) == slug \o <<"-">> \o int_str(k)
            unique == TenantRepository_generate_unique_slug(tenants, base_slug)
        IN /\ ~held(slug) => unique = slug
           /\ held(slug) =>
                 \E k \in 1..(Cardinality(tenants) + 1) :
                     /\ unique = numbered(k)
                     /\ \A j \in 1..(k - 1) : held(numbered(j))
           /\ ~held(unique)

\* POST /api/v1/tenants has just made the tenant "a-c-1" next to "a-c", and
\* the next slug generated from "A c" is "a-c-2"
C20_Witness ==
    /\ resp.op = "create_tenant"
    /\ resp.status = 201
    /\ \E t \in tenants : t.id = resp.tenant_id /\ t.slug = <<"a", "-", "c", "-", "1">>
    /\ \E t \in tenants : t.slug = <<"a", "-", "c">>
    /\ TenantRepository_generate_unique_slug(tenants, <<"A", " ", "c">>)
          = <<"a", "-", "c", "-", "2">>

-----------------------------------------------------------------------------
(* Properties of signup without the system roles (SpecSignup) *)

\* C21: signup without a seeded admin role. When no role named tenant_admin
\* exists, a signup that passes the schema and the validation is answered
\* 201, the tenant and the owner are stored, and the owner holds no role:
\* the assignment step is skipped and no role assignment is written.
C21_SignupWithoutAdminRole ==
    [][(/\ resp'.op = "signup_tenant"
        /\ RoleRepository_get_by_name(roles, ROLE_TENANT_ADMIN) = {})
       => /\ resp'.status = 201 =>
                /\ \E t \in tenants' \ tenants : t.id = resp'.tenant_id
                /\ \E u \in users' \ users :
                      /\ u.id = resp'.user_id
                      /\ u.tenant_id = resp'.tenant_id
                      /\ u.is_tenant_owner
                /\ user_roles' = user_roles
                /\ {ur \in user_roles' : ur.user_id = resp'.user_id} = {}
          /\ resp'.status # 201 =>
                \A body \in PreflightBodies :
                    LET validation_result ==
                            OnboardingService_validate_signup_request(
                                tenants, TenantSignupRequest_parse(body))
                    IN (/\ TenantSignupRequest_valid(body)
                        /\ ~validation_result.raised
                        /\ validation_result.errors = {})
                       => ~signup_tenant(body, FALSE)]_vars

\* with no role in the roles table a signup was answered 201, and the owner
\* it created holds no role
C21_Witness ==
    /\ roles = {}
    /\ resp.op = "signup_tenant"
    /\ resp.status = 201
    /\ \E u \in users : u.id = resp.user_id /\ u.is_tenant_owner
    /\ {ur \in user_roles : ur.user_id = resp.user_id} = {}

-----------------------------------------------------------------------------
(* Properties of username validation (SpecUsernames) *)

\* C24: validate_username for a well-formed username that a user of the
\* tenant already has returns a result, with is_valid_format true,
\* is_available false and at most 3 suggestions; it does not fail.
C24_TakenUsernameSuggestions ==
    (/\ resp.op = "validate_username"
     /\ OnboardingService_validate_username_format(resp.username)
     /\ \E u \in users : /\ u.tenant_id = resp.tenant_id
                         /\ u.username = str_lower(resp.username))
    => /\ resp.status = 200
       /\ resp.is_valid_format
       /\ ~resp.is_available
       /\ Len(resp.suggestions) <= 3

-----------------------------------------------------------------------------
(* Properties of the password change (SpecPassword) *)

\* C25: whenever POST /change-password answers success for a token, the user
\* named by the sub of the token has, in the resulting state, a password hash
\* that verifies the new password, and authenticate(username of the token,
\* new password, tenant of the token) returns that user; whenever it answers
\* 400 the stored password hashes are as they were.  This after any sequence
\* of user creations and deletions in the tenant.
C25_PasswordChanged ==
    [][(resp'.op = "change_password") =>
          /\ resp'.status = 200 =>
                \E u \in users' :
                    /\ u.id = resp'.user_id
                    /\ verify_password(resp'.request.new_password, u.password_hash)
                    /\ UserService_authenticate(
                           users', resp'.username, resp'.request.new_password,
                           resp'.tenant_id).user = {u}
          /\ resp'.status = 400 => users' = users]_vars

-----------------------------------------------------------------------------
(* Properties of signups that run at the same time (SpecSlugRace) *)

\* C26: two signups that both probe before either inserts can choose the
\* same slug; the unique index keeps at most one tenant row with that slug,
\* and the request that inserts second ends with an uncaught storage error
\* (500), not with the 409 of a DuplicateException, and stores nothing.  A
\* request whose slug is still free when it inserts is answered 201.
C26_SlugRace ==
    [][/\ ix_tenants_slug'
       /\ \A r \in inflight :
            (r.op = "signup_tenant" /\ inflight' = inflight \ {r}) =>
                IF \E t \in tenants : t.slug = str_lower(r.slug)
                THEN /\ resp'.status = 500
                     /\ resp'.status # 409
                     /\ store' = store
                     /\ nextId' = nextId
                ELSE /\ resp'.status = 201
                     /\ \E t \in tenants' \ tenants : t.slug = str_lower(r.slug)]_vars

\* two signups have chosen the same slug, one has stored its tenant with an
\* owner, and the other has just been answered 500
C26_Witness ==
    /\ resp.op = "signup_tenant"
    /\ resp.status = 500
    /\ "slug" \in DOMAIN resp
    /\ \E t \in tenants :
          /\ t.slug = resp.slug
          /\ \E u \in users : u.tenant_id = t.id /\ u.is_tenant_owner
    /\ Cardinality({t \in tenants : t.slug = resp.slug}) = 1

-----------------------------------------------------------------------------
(* Properties of role removals that run at the same time (SpecRoleRace) *)

\* C27: for a user holding exactly two roles, two removals of the two
\* different roles that both count the roles before either deletes cannot
\* both succeed: a removal that has counted two roles and is answered
\* success leaves the user with at least one role.
C27_MinimumRoleInterleaved ==
    [][\A r \in inflight :
          (/\ r.op = "remove_role"
           /\ r.current_roles = 2
           /\ inflight' = inflight \ {r}
           /\ resp'.status = 200)
          => Cardinality(RoleRepository_get_user_roles(user_roles', r.user_id)) >= 1]_vars

-----------------------------------------------------------------------------
(* Properties of owners and members (SpecOwners) *)

\* C28: single owner. In every state reached by signups, user creations
\* through /api/v1/users, user updates and user deletions, each tenant has
\* at most one user with is_tenant_owner true: get_tenant_owner never finds
\* more than one row.
C28_SingleOwner ==
    \A t \in tenants : Cardinality(UserRepository_get_tenant_owner(users, t.id)) <= 1

\* a tenant made by signup has its owner and a second user, created through
\* /api/v1/users, who is not an owner
C28_Witness ==
    /\ resp.op = "create_user"
    /\ resp.status = 201
    /\ \E t \in tenants :
          /\ Cardinality({u \in users : u.tenant_id = t.id}) = 2
          /\ Cardinality(UserRepository_get_tenant_owner(users, t.id)) = 1
          /\ \E u \in users :
                u.id = resp.user_id /\ u.tenant_id = t.id /\ ~u.is_tenant_owner

-----------------------------------------------------------------------------
(* Properties of the stored slug (SpecSlugFormat) *)

\* C29: every tenant stored by TenantService.create or by signup, for every
\* business name the request schemas accept, names made only of characters
\* that are neither letters nor digits included, has a slug of 2 to 100
\* characters that matches ^[a-z0-9]+(-[a-z0-9]+)*$.
C29_StoredSlugFormat ==
    \A t \in tenants :
        /\ Len(t.slug) >= 2
        /\ Len(t.slug) <= 100
        /\ slug_pattern(t.slug)

-----------------------------------------------------------------------------
(* Properties of the lookup by id or slug (SpecLookup) *)

\* C30: the lookup by slug is total. For every stored tenant T,
\* get_by_id_or_slug(T.slug) returns T, also when T.slug is a text that
\* parses as a UUID (such as 32 hexadecimal characters); a lookup answered
\* TenantNotFound names neither the id nor the slug of a stored tenant.
C30_LookupBySlugTotal ==
    /\ \A t \in tenants : TenantService_get_by_id_or_slug(tenants, t.slug) = {t}
    /\ (resp.op = "get_by_id_or_slug" /\ resp.status = 404) =>
          \A t \in tenants :
              /\ t.slug # str_lower(resp.identifier)
              /\ UUID(resp.identifier).raised \/ UUID(resp.identifier).value # t.id

=============================================================================
